---- MODULE Spec2Model ----
(***************************************************************************)
(* Model of krmcbride/mcp-k8s: the resource-mapper registry with its kind  *)
(* normalisation, the content projection dispatcher with the per-kind      *)
(* mappers it dispatches to, and the GVK -> GVR resolver.                   *)
(*                                                                         *)
(* Go strings are byte sequences; a Kind is modelled as a sequence of      *)
(* bytes (0..255) so that the byte slicing done by normalizeGVKForLookup   *)
(* and the rune decoding done by strings.ToUpper / strings.ToLower are     *)
(* both visible.  Group and Version are opaque and stay TLA+ strings.      *)
(***************************************************************************)
EXTENDS Integers, Sequences, FiniteSets, TLC

VARIABLES
    resourceMappers,  \* mapper.go:17  map[GroupVersionKind]ResourceMapper
    regHistory,       \* ghost: the Register calls made so far, in order
    lastCall,         \* the last registry call and what it returned
    normIn,           \* input of the normalizeGVKForLookup run
    normOut,          \* normalizeGVKForLookup(normIn), once computed
    normOut2,         \* normalizeGVKForLookup(normOut), once computed
    normPc,           \* position of the normalisation run
    now,              \* the wall clock read by time.Since, in whole seconds
    projCall,         \* the last dispatcher call and what it returned
    projRepeat,       \* the same call made once more, and what it returned
    resolved,         \* ghost: the GVKToGVR calls made so far, with their results
    discoveries,      \* ghost: discovery runs made against clusters so far
    restMappings,     \* ghost: the RESTMapping requests made so far, in order
    phase,            \* where the process is: package initialisation, main, serving
    initsLeft,        \* the Register calls of the init functions still to run
    handlers,         \* the tool calls in flight, each with its position
    parseIn,          \* argument of the parseMemoryToMiB run
    parseOut,         \* what parseMemoryToMiB returned, once it has
    clientCall,       \* the last client-creation call and what it returned
    listCall,         \* the last list_k8s_resources call and what it did
    logsCall,         \* the last get_k8s_pod_logs call and what it did
    metricsCall,      \* the last get_k8s_metrics call and what it did
    getCall,          \* the last get_k8s_resource call and what it did
    durIn,            \* argument of the formatDuration run, in whole seconds
    durOut,           \* what formatDuration returned, once it has
    mainPc,           \* position of main: before its select, in it, after it
    servePc,          \* position of the goroutine that runs ServeStdio
    errChan,          \* main.go:110  buffered channel of server errors
    sigChan,          \* main.go:106  buffered channel of OS signals
    exitCode,         \* exit status of the process, once it has one
    stderr            \* what the process wrote to standard error, in order

regVars == <<regHistory, lastCall>>
normVars == <<normIn, normOut, normOut2, normPc>>
projVars == <<now, projCall, projRepeat>>
resolveVars == <<resolved, discoveries, restMappings>>
startupVars == <<phase, initsLeft, handlers>>
parseVars == <<parseIn, parseOut>>
toolVars == <<clientCall, listCall>>
callVars == <<logsCall, metricsCall, getCall>>
durVars == <<durIn, durOut>>
mainVars == <<mainPc, servePc, errChan, sigChan, exitCode, stderr>>
moreVars == <<callVars, durVars, mainVars>>
serverVars == <<startupVars, parseVars, toolVars, moreVars>>

vars == <<resourceMappers, regVars, normVars, projVars, resolveVars, serverVars>>

NoCall == [op |-> "none"]
NoGVK == [Group |-> "", Version |-> "", Kind |-> <<>>]

\* The parts of the state a specification does not use stay at these values.
NormIdle ==
    /\ normIn = NoGVK
    /\ normOut = NoGVK
    /\ normOut2 = NoGVK
    /\ normPc = "idle"

ProjIdle ==
    /\ now = 0
    /\ projCall = NoCall
    /\ projRepeat = NoCall

ResolveIdle ==
    /\ resolved = <<>>
    /\ discoveries = 0
    /\ restMappings = <<>>

StartupIdle ==
    /\ phase = "none"
    /\ initsLeft = {}
    /\ handlers = <<>>

ParseIdle ==
    /\ parseIn = <<>>
    /\ parseOut = NoCall

ToolIdle ==
    /\ clientCall = NoCall
    /\ listCall = NoCall

CallIdle ==
    /\ logsCall = NoCall
    /\ metricsCall = NoCall
    /\ getCall = NoCall

DurIdle ==
    /\ durIn = 0
    /\ durOut = NoCall

MainIdle ==
    /\ mainPc = "none"
    /\ servePc = "none"
    /\ errChan = <<>>
    /\ sigChan = <<>>
    /\ exitCode = -1
    /\ stderr = <<>>

-----------------------------------------------------------------------------
(* Bounds *)

MaxRegs == 2          \* Register calls per behaviour
MaxNormLen == 3       \* longest Kind (in bytes) given to the normaliser

-----------------------------------------------------------------------------
(* UTF-8 and case mapping, as the Go standard library does them *)

\* utf8.RuneSelf: bytes below it are single-byte runes
RuneSelf == 128
\* utf8.RuneError, U+FFFD
RuneError == 65533
\* utf8.MaxRune, U+10FFFF
MaxRune == 1114111

InvalidRune == [r |-> RuneError, w |-> 1]

\* utf8.DecodeRuneInString(s[i:]) with i 1-based: the rune and its width.
\* An invalid or truncated encoding decodes as (RuneError, 1).
DecodeRune(s, i) ==
    LET n  == Len(s) - i + 1
        b0 == s[i]
        cont(j) == s[j] >= 128 /\ s[j] <= 191
    IN  IF b0 < RuneSelf THEN [r |-> b0, w |-> 1]
        ELSE IF b0 >= 194 /\ b0 <= 223 THEN
            IF n >= 2 /\ cont(i + 1)
            THEN [r |-> (b0 - 192) * 64 + (s[i + 1] - 128), w |-> 2]
            ELSE InvalidRune
        ELSE IF b0 >= 224 /\ b0 <= 239 THEN
            LET lo == IF b0 = 224 THEN 160 ELSE 128
                hi == IF b0 = 237 THEN 159 ELSE 191
            IN  IF n >= 3 /\ s[i + 1] >= lo /\ s[i + 1] <= hi /\ cont(i + 2)
                THEN [r |-> (b0 - 224) * 4096 + (s[i + 1] - 128) * 64
                              + (s[i + 2] - 128), w |-> 3]
                ELSE InvalidRune
        ELSE IF b0 >= 240 /\ b0 <= 244 THEN
            LET lo == IF b0 = 240 THEN 144 ELSE 128
                hi == IF b0 = 244 THEN 143 ELSE 191
            IN  IF n >= 4 /\ s[i + 1] >= lo /\ s[i + 1] <= hi
                   /\ cont(i + 2) /\ cont(i + 3)
                THEN [r |-> (b0 - 240) * 262144 + (s[i + 1] - 128) * 4096
                              + (s[i + 2] - 128) * 64 + (s[i + 3] - 128), w |-> 4]
                ELSE InvalidRune
        ELSE InvalidRune

\* utf8.AppendRune / strings.Builder.WriteRune: the UTF-8 encoding of r;
\* surrogates and out-of-range values are written as U+FFFD.
EncodeRune(r) ==
    IF r < 0 \/ r > MaxRune \/ (r >= 55296 /\ r <= 57343) THEN <<239, 191, 189>>
    ELSE IF r < 128 THEN <<r>>
    ELSE IF r < 2048 THEN <<192 + (r \div 64), 128 + (r % 64)>>
    ELSE IF r < 65536
        THEN <<224 + (r \div 4096), 128 + ((r \div 64) % 64), 128 + (r % 64)>>
    ELSE <<240 + (r \div 262144), 128 + ((r \div 4096) % 64),
           128 + ((r \div 64) % 64), 128 + (r % 64)>>

\* unicode.ToUpper on the code points the model's byte alphabets can
\* produce: ASCII and the Latin-1 letters U+00E0..U+00FE (U+00F7 is the
\* division sign); every other such code point is its own upper case.
unicodeToUpper(r) ==
    IF r >= 97 /\ r <= 122 THEN r - 32
    ELSE IF r >= 224 /\ r <= 254 /\ r # 247 THEN r - 32
    ELSE r

\* unicode.ToLower, same range: ASCII and U+00C0..U+00DE (U+00D7 is the
\* multiplication sign).
unicodeToLower(r) ==
    IF r >= 65 /\ r <= 90 THEN r + 32
    ELSE IF r >= 192 /\ r <= 222 /\ r # 215 THEN r + 32
    ELSE r

\* strings.Map(unicode.ToUpper | unicode.ToLower, s[i:]): the string is
\* walked rune by rune (an invalid byte is one RuneError of width 1) and
\* every mapped rune is written back with WriteRune.
RECURSIVE MapCase(_, _, _)
MapCase(upper, s, i) ==
    IF i > Len(s) THEN <<>>
    ELSE LET d == DecodeRune(s, i)
         IN  EncodeRune(IF upper THEN unicodeToUpper(d.r) ELSE unicodeToLower(d.r))
                 \o MapCase(upper, s, i + d.w)

IsASCII(s) == \A i \in 1..Len(s) : s[i] < RuneSelf

\* strings.ToUpper: byte-wise on pure ASCII input, strings.Map otherwise.
stringsToUpper(s) ==
    IF IsASCII(s) THEN [i \in 1..Len(s) |-> unicodeToUpper(s[i])]
    ELSE MapCase(TRUE, s, 1)

\* strings.ToLower: byte-wise on pure ASCII input, strings.Map otherwise.
stringsToLower(s) ==
    IF IsASCII(s) THEN [i \in 1..Len(s) |-> unicodeToLower(s[i])]
    ELSE MapCase(FALSE, s, 1)

-----------------------------------------------------------------------------
(* Kind normalisation, mapper.go:55-61 *)

\* strings.ToUpper(gvk.Kind[:1]) + strings.ToLower(gvk.Kind[1:]); the
\* slices are BYTE slices.
normalizeKind(kind) ==
    IF kind # <<>>
    THEN stringsToUpper(SubSeq(kind, 1, 1)) \o stringsToLower(SubSeq(kind, 2, Len(kind)))
    ELSE kind

normalizeGVKForLookup(gvk) == [gvk EXCEPT !.Kind = normalizeKind(gvk.Kind)]

-----------------------------------------------------------------------------
(* The mapper registry, mapper.go:13-35 *)

\* Kinds as byte strings: "", "pod", "Pod", "POD", "pOd".
KindEmpty == <<>>
KindPodLower == <<112, 111, 100>>
KindPodTitle == <<80, 111, 100>>
KindPodUpper == <<80, 79, 68>>
KindPodMixed == <<112, 79, 100>>

\* Kinds given to Register, and kinds given to Get.
RegisterKinds == {KindEmpty, KindPodLower, KindPodUpper}
LookupKinds == RegisterKinds \cup {KindPodTitle, KindPodMixed}

\* (Group, Version) pairs: one base pair, one differing only in the casing
\* of Group, one differing only in the casing of Version.
RegistryGroupVersions == {<<"apps", "v1">>, <<"APPS", "v1">>, <<"apps", "V1">>}

GVKsOf(kinds) ==
    {[Group |-> gv[1], Version |-> gv[2], Kind |-> k] :
        gv \in RegistryGroupVersions, k \in kinds}

RegisterGVKs == GVKsOf(RegisterKinds)
RegistryGVKs == GVKsOf(LookupKinds)

\* ResourceMapper values handed to Register (mapper1 / mapper2 of the tests).
Mappers == {"mapper1", "mapper2"}
NilMapper == "nil"

\* A variant of registerInto that stores the mapper under the caller's
\* GVK as given, without normalising it.
registerIntoRaw(rm, gvk, mapper) ==
    [k \in DOMAIN rm \cup {gvk} |-> IF k = gvk THEN mapper ELSE rm[k]]

\* A variant of registerInto that keeps an entry that already exists.
registerIntoFirstWins(rm, gvk, mapper) ==
    LET normalizedGVK == normalizeGVKForLookup(gvk)
    IN  [k \in DOMAIN rm \cup {normalizedGVK} |->
            IF k \in DOMAIN rm THEN rm[k] ELSE mapper]

\* Register's effect on the map: resourceMappers[normalizedGVK] = mapper.
registerInto(rm, gvk, mapper) ==
    LET normalizedGVK == normalizeGVKForLookup(gvk)
    IN  [k \in DOMAIN rm \cup {normalizedGVK} |->
            IF k = normalizedGVK THEN mapper ELSE rm[k]]

\* Get's lookup in a given map: mapper, hasCustomMapper := rm[normalizedGVK].
getFrom(rm, gvk) ==
    LET normalizedGVK == normalizeGVKForLookup(gvk)
    IN  IF normalizedGVK \in DOMAIN rm
        THEN [mapper |-> rm[normalizedGVK], found |-> TRUE]
        ELSE [mapper |-> NilMapper, found |-> FALSE]

\* func Get(gvk) (ResourceMapper, bool), reading the process-wide map.
Get(gvk) == getFrom(resourceMappers, gvk)

\* func Register(gvk, mapper).
Register(gvk, mapper) ==
    /\ Len(regHistory) < MaxRegs
    /\ resourceMappers' = registerInto(resourceMappers, gvk, mapper)
    /\ regHistory' = Append(regHistory, [gvk |-> gvk, mapper |-> mapper])
    /\ lastCall' = [op |-> "Register", gvk |-> gvk, mapper |-> mapper, found |-> FALSE]
    /\ UNCHANGED <<normVars, projVars, resolveVars, serverVars>>

\* A caller invoking Get and receiving its two results.
GetCall(gvk) ==
    /\ lastCall' = [op |-> "Get", gvk |-> gvk,
                    mapper |-> Get(gvk).mapper, found |-> Get(gvk).found]
    /\ UNCHANGED <<resourceMappers, regHistory, normVars, projVars, resolveVars, serverVars>>

RegisterAny == \E gvk \in RegisterGVKs, mapper \in Mappers : Register(gvk, mapper)
GetAny == \E gvk \in RegistryGVKs : GetCall(gvk)

\* var resourceMappers = make(map[schema.GroupVersionKind]ResourceMapper)
InitRegistry ==
    /\ resourceMappers = <<>>
    /\ regHistory = <<>>
    /\ lastCall = NoCall
    /\ NormIdle
    /\ ProjIdle
    /\ ResolveIdle
    /\ StartupIdle
    /\ ParseIdle
    /\ ToolIdle
    /\ CallIdle
    /\ DurIdle
    /\ MainIdle

NextRegistry == RegisterAny \/ GetAny

SpecRegistry == InitRegistry /\ [][NextRegistry]_vars

-----------------------------------------------------------------------------
(* Runs of normalizeGVKForLookup on bounded inputs *)

\* Bytes a Kind is built from: 'a', 'A', '1', and 0xC3, 0xA9, 0x89, which
\* make the two-byte code points U+00E9 (C3 A9) and U+00C9 (C3 89) as well
\* as ill-formed strings.
NormBytes == {97, 65, 49, 195, 169, 137}

RECURSIVE SeqsUpTo(_, _)
SeqsUpTo(S, n) ==
    IF n = 0 THEN {<<>>}
    ELSE LET shorter == SeqsUpTo(S, n - 1)
         IN  shorter \cup {Append(q, b) : q \in shorter, b \in S}

\* "ConfigMap"
KindConfigMap == <<67, 111, 110, 102, 105, 103, 77, 97, 112>>
\* "Configmap"
KindConfigmapFlat == <<67, 111, 110, 102, 105, 103, 109, 97, 112>>

NormKinds == SeqsUpTo(NormBytes, MaxNormLen) \cup {KindConfigMap}
NormGVKs ==
    {[Group |-> g, Version |-> v, Kind |-> k] :
        g \in {"apps", "APPS"}, v \in {"v1", "V1"}, k \in NormKinds}

\* normalizeGVKForLookup applied to the input.
NormalizeOnce ==
    /\ normPc = "start"
    /\ normOut' = normalizeGVKForLookup(normIn)
    /\ normPc' = "once"
    /\ UNCHANGED <<resourceMappers, regVars, projVars, resolveVars, normIn, normOut2, serverVars>>

\* normalizeGVKForLookup applied to its own output.
NormalizeTwice ==
    /\ normPc = "once"
    /\ normOut2' = normalizeGVKForLookup(normOut)
    /\ normPc' = "twice"
    /\ UNCHANGED <<resourceMappers, regVars, projVars, resolveVars, normIn, normOut, serverVars>>

InitNormalize ==
    /\ resourceMappers = <<>>
    /\ regHistory = <<>>
    /\ lastCall = NoCall
    /\ ProjIdle
    /\ ResolveIdle
    /\ StartupIdle
    /\ ParseIdle
    /\ ToolIdle
    /\ CallIdle
    /\ DurIdle
    /\ MainIdle
    /\ normIn \in NormGVKs
    /\ normOut = NoGVK
    /\ normOut2 = NoGVK
    /\ normPc = "start"

NextNormalize == NormalizeOnce \/ NormalizeTwice

SpecNormalize == InitNormalize /\ [][NextNormalize]_vars

-----------------------------------------------------------------------------
(* Normalisation claims *)

\* s[i..] is well-formed UTF-8.
RECURSIVE ValidUTF8From(_, _)
ValidUTF8From(s, i) ==
    IF i > Len(s) THEN TRUE
    ELSE LET d == DecodeRune(s, i)
         IN  /\ ~(d.r = RuneError /\ d.w = 1)
             /\ ValidUTF8From(s, i + d.w)

ValidUTF8(s) == ValidUTF8From(s, 1)

\* The Kind the documentation describes: the first character (code point)
\* upper-cased, every remaining character lower-cased.
TitleCased(kind) ==
    IF kind = <<>> THEN kind
    ELSE LET d == DecodeRune(kind, 1)
         IN  EncodeRune(unicodeToUpper(d.r)) \o MapCase(FALSE, kind, 1 + d.w)

\* C3: normalisation is idempotent: normalising the normalised GVK changes
\* nothing, for every Kind string.
C3_NormalizeIdempotent ==
    normPc = "twice" => normOut2 = normOut

\* C4: normalizeGVKForLookup returns the input Kind with its first character
\* upper-cased and every remaining character lower-cased (the empty Kind
\* unchanged, "ConfigMap" as "Configmap"), for every well-formed Kind, and
\* Group and Version exactly as given.
C4_NormalizeTitleCases ==
    normPc # "start" =>
        /\ normOut.Group = normIn.Group
        /\ normOut.Version = normIn.Version
        /\ normIn.Kind = <<>> => normOut.Kind = <<>>
        /\ normIn.Kind = KindConfigMap => normOut.Kind = KindConfigmapFlat
        /\ ValidUTF8(normIn.Kind) => normOut.Kind = TitleCased(normIn.Kind)

-----------------------------------------------------------------------------
(* Registry claims *)

\* Same registry entry: Group and Version match exactly, Kind matches after
\* normalisation.
SameIdentity(g, r) ==
    /\ g.Group = r.Group
    /\ g.Version = r.Version
    /\ normalizeKind(g.Kind) = normalizeKind(r.Kind)

\* The registry built by the Register calls h[1..n], from the empty map.
RECURSIVE Replay(_, _)
Replay(h, n) ==
    IF n = 0 THEN <<>> ELSE registerInto(Replay(h, n - 1), h[n].gvk, h[n].mapper)

LastReg == regHistory[Len(regHistory)]

\* C1: right after Register(r, m), Get(g) returns (m, true) for every g with
\* r's Group, r's Version and a Kind equal to r's after normalisation, and
\* any other g gets what it got before that Register; so when r is the only
\* registration, Get(g) finds a mapper if and only if g has r's identity,
\* and a g differing only in Group or only in Version is not found.  A Get
\* call returns exactly that.
C1_RegisterGetRoundTrip ==
    /\ regHistory # <<>> =>
          \A g \in RegistryGVKs :
              /\ SameIdentity(g, LastReg.gvk) =>
                    Get(g) = [mapper |-> LastReg.mapper, found |-> TRUE]
              /\ ~SameIdentity(g, LastReg.gvk) =>
                    Get(g) = getFrom(Replay(regHistory, Len(regHistory) - 1), g)
              /\ Len(regHistory) = 1 =>
                    (Get(g).found <=>
                        /\ g.Group = LastReg.gvk.Group
                        /\ g.Version = LastReg.gvk.Version
                        /\ normalizeKind(g.Kind) = normalizeKind(LastReg.gvk.Kind))
    /\ (lastCall.op = "Get" /\ Len(regHistory) = 1) =>
          /\ lastCall.found <=> SameIdentity(lastCall.gvk, LastReg.gvk)
          /\ lastCall.found => lastCall.mapper = LastReg.mapper

\* C1 witness: "pod" was registered for apps/v1 and a Get with Kind "pOd"
\* has returned that mapper.
C1_Witness ==
    /\ Len(regHistory) = 1
    /\ regHistory[1].gvk = [Group |-> "apps", Version |-> "v1", Kind |-> KindPodLower]
    /\ lastCall.op = "Get"
    /\ lastCall.gvk = [Group |-> "apps", Version |-> "v1", Kind |-> KindPodMixed]
    /\ lastCall.found
    /\ lastCall.mapper = regHistory[1].mapper

\* The index of the most recent Register call whose identity is g's, or 0.
LastIndexFor(g) ==
    LET hits == {i \in 1..Len(regHistory) : SameIdentity(regHistory[i].gvk, g)}
    IN  IF hits = {} THEN 0 ELSE CHOOSE i \in hits : \A j \in hits : j <= i

\* C2: after any sequence of Register calls the registry holds exactly one
\* entry per distinct normalised (Group, Version, Kind) registered, and
\* Get(g) returns the mapper of the most recent Register call whose identity
\* normalises to g's key (not found when there is none).
C2_LastRegistrationWins ==
    /\ DOMAIN resourceMappers =
          {normalizeGVKForLookup(regHistory[i].gvk) : i \in 1..Len(regHistory)}
    /\ Cardinality(DOMAIN resourceMappers) =
          Cardinality({<<regHistory[i].gvk.Group, regHistory[i].gvk.Version,
                         normalizeKind(regHistory[i].gvk.Kind)>> :
                            i \in 1..Len(regHistory)})
    /\ \A g \in RegistryGVKs :
          Get(g) = IF LastIndexFor(g) = 0
                   THEN [mapper |-> NilMapper, found |-> FALSE]
                   ELSE [mapper |-> regHistory[LastIndexFor(g)].mapper, found |-> TRUE]
    /\ lastCall.op = "Get" =>
          /\ lastCall.found = (LastIndexFor(lastCall.gvk) # 0)
          /\ lastCall.found =>
                lastCall.mapper = regHistory[LastIndexFor(lastCall.gvk)].mapper

\* C2 witness: "test"-style overwrite, here "pod" with mapper1 then "POD"
\* with mapper2, one entry in the map, and Get("Pod") has returned mapper2.
C2_Witness ==
    /\ Len(regHistory) = 2
    /\ regHistory[1] = [gvk |-> [Group |-> "apps", Version |-> "v1", Kind |-> KindPodLower],
                         mapper |-> "mapper1"]
    /\ regHistory[2] = [gvk |-> [Group |-> "apps", Version |-> "v1", Kind |-> KindPodUpper],
                         mapper |-> "mapper2"]
    /\ Cardinality(DOMAIN resourceMappers) = 1
    /\ lastCall.op = "Get"
    /\ lastCall.gvk.Kind = KindPodTitle
    /\ lastCall.found
    /\ lastCall.mapper = "mapper2"

-----------------------------------------------------------------------------
(* Generic resource objects: unstructured.Unstructured                     *)
(*                                                                         *)
(* A value of the parsed-JSON tree is a record with a type tag t and one   *)
(* payload field per Go type: s (string), n (int64), b (bool),             *)
(* m (map[string]any, a function from keys to values), l ([]any).          *)

EmptyMap == [k \in {} |-> 0]

JNull == [t |-> "nil", s |-> "", n |-> 0, b |-> FALSE, m |-> EmptyMap, l |-> <<>>]
JStr(v) == [t |-> "string", s |-> v, n |-> 0, b |-> FALSE, m |-> EmptyMap, l |-> <<>>]
JInt(v) == [t |-> "int64", s |-> "", n |-> v, b |-> FALSE, m |-> EmptyMap, l |-> <<>>]
JBool(v) == [t |-> "bool", s |-> "", n |-> 0, b |-> v, m |-> EmptyMap, l |-> <<>>]
JMap(f) == [t |-> "map", s |-> "", n |-> 0, b |-> FALSE, m |-> f, l |-> <<>>]
JList(q) == [t |-> "slice", s |-> "", n |-> 0, b |-> FALSE, m |-> EmptyMap, l |-> q]

NotFound == [found |-> FALSE, val |-> JNull]

\* unstructured.NestedFieldNoCopy(obj, fields...): (val, found); the error
\* it also returns is dropped by every caller in this repository.
RECURSIVE NestedFieldNoCopy(_, _)
NestedFieldNoCopy(val, fields) ==
    IF fields = <<>> THEN [found |-> TRUE, val |-> val]
    ELSE IF val.t = "map"
        THEN IF Head(fields) \in DOMAIN val.m /\ val.m[Head(fields)].t # "nil"
             THEN NestedFieldNoCopy(val.m[Head(fields)], Tail(fields))
             ELSE NotFound
    ELSE NotFound

\* The typed accessors: found only when the value has the requested type.
NestedTyped(obj, fields, type) ==
    LET r == NestedFieldNoCopy(obj, fields)
    IN  IF r.found /\ r.val.t = type THEN r ELSE NotFound

NestedString(obj, fields) == NestedTyped(obj, fields, "string")
NestedInt64(obj, fields) == NestedTyped(obj, fields, "int64")
NestedBool(obj, fields) == NestedTyped(obj, fields, "bool")
NestedSlice(obj, fields) == NestedTyped(obj, fields, "slice")
NestedMap(obj, fields) == NestedTyped(obj, fields, "map")

\* unstructured.NestedStringMap: found only for a map whose values are all
\* strings.
NestedStringMap(obj, fields) ==
    LET r == NestedMap(obj, fields)
    IN  IF r.found /\ \A k \in DOMAIN r.val.m : r.val.m[k].t = "string"
        THEN r ELSE NotFound

\* getNestedString, behind GetName / GetNamespace: the string or "".
getNestedString(obj, fields) ==
    LET r == NestedString(obj, fields) IN IF r.found THEN r.val.s ELSE ""

GetName(item) == getNestedString(item, <<"metadata", "name">>)
GetNamespace(item) == getNestedString(item, <<"metadata", "namespace">>)

-----------------------------------------------------------------------------
(* Time: time.Parse(time.RFC3339, s), time.Since, formatDuration           *)
(*                                                                         *)
(* Instants are whole seconds relative to 2025-01-01T00:00:00Z, the value  *)
(* of the clock when the model starts; the zero time.Time is kept apart.   *)

ZeroTime == [isZero |-> TRUE, sec |-> 0]
At(sec) == [isZero |-> FALSE, sec |-> sec]

TsMinuteAgo == "2024-12-31T23:59:01Z"
TsHourAgo == "2024-12-31T23:00:01Z"
TsDayAgo == "2024-12-31T00:00:01Z"
TsFuture == "2025-01-01T00:01:40Z"
TsZero == "0001-01-01T00:00:00Z"

\* time.Parse(time.RFC3339, s) on the strings of the model: the five
\* timestamps parse, anything else (the empty string included) is an error.
ParseRFC3339(str) ==
    CASE str = TsMinuteAgo -> [ok |-> TRUE, t |-> At(0 - 59)]
      [] str = TsHourAgo -> [ok |-> TRUE, t |-> At(0 - 3599)]
      [] str = TsDayAgo -> [ok |-> TRUE, t |-> At(0 - 86399)]
      [] str = TsFuture -> [ok |-> TRUE, t |-> At(100)]
      [] str = TsZero -> [ok |-> TRUE, t |-> ZeroTime]
      [] OTHER -> [ok |-> FALSE, t |-> ZeroTime]

\* func formatUnit(value int, unit string) string
formatUnit(value, unit) == ToString(value) \o unit

\* A variant of formatDuration whose buckets end one second later.
formatDurationInclusive(d) ==
    IF d <= 60 THEN "< 1m"
    ELSE IF d <= 3600 THEN formatUnit(d \div 60, "m")
    ELSE IF d <= 24 * 3600 THEN formatUnit(d \div 3600, "h")
    ELSE formatUnit((d \div 3600) \div 24, "d")

\* func formatDuration(d time.Duration) string, d in whole seconds.
formatDuration(d) ==
    IF d < 60 THEN "< 1m"
    ELSE IF d < 3600 THEN formatUnit(d \div 60, "m")
    ELSE IF d < 24 * 3600 THEN formatUnit(d \div 3600, "h")
    ELSE formatUnit((d \div 3600) \div 24, "d")

\* formatDuration(time.Since(t)) at clock value clock.  time.Since of the
\* zero time overflows a Duration and saturates at math.MaxInt64 ns, which
\* formatDuration renders as 106751 days.
formatSince(t, clock) ==
    IF t.isZero THEN formatUnit(106751, "d") ELSE formatDuration(clock - t.sec)

\* item.GetCreationTimestamp().Time: the parsed metadata.creationTimestamp,
\* the zero time when it is absent, empty or does not parse.
GetCreationTimestamp(item) ==
    LET p == ParseRFC3339(getNestedString(item, <<"metadata", "creationTimestamp">>))
    IN  IF p.ok THEN p.t ELSE ZeroTime

-----------------------------------------------------------------------------
(* parseMemoryToMiB, the Pod mapper's quantity parser                      *)
(*                                                                         *)
(* A memory string is a sequence of one-character strings.  Within the     *)
(* lengths used here every float64 operation of the code is exact up to    *)
(* truncation, so values are kept as a numerator over a power of ten.      *)

MaxMemLen == 4

DigitChars == {"0", "1", "2", "3", "4", "5", "6", "7", "8", "9"}
LetterChars ==
    {"A", "B", "C", "D", "E", "F", "G", "H", "I", "J", "K", "L", "M", "N", "O", "P", "Q",
     "R", "S", "T", "U", "V", "W", "X", "Y", "Z", "a", "b", "c", "d", "e", "f", "g", "h",
     "i", "j", "k", "l", "m", "n", "o", "p", "q", "r", "s", "t", "u", "v", "w", "x", "y",
     "z"}
SpaceChars == {" "}

DigitValue(c) ==
    CASE c = "0" -> 0 [] c = "1" -> 1 [] c = "2" -> 2 [] c = "3" -> 3 [] c = "4" -> 4
      [] c = "5" -> 5 [] c = "6" -> 6 [] c = "7" -> 7 [] c = "8" -> 8 [] c = "9" -> 9

\* The number a string of digits denotes.
RECURSIVE DigitsValue(_)
DigitsValue(ds) ==
    IF ds = <<>> THEN 0
    ELSE 10 * DigitsValue(SubSeq(ds, 1, Len(ds) - 1)) + DigitValue(ds[Len(ds)])

RECURSIVE PowerOfTen(_)
PowerOfTen(n) == IF n = 0 THEN 1 ELSE 10 * PowerOfTen(n - 1)

\* Length of the longest prefix of q made of characters of class.
RECURSIVE PrefixLen(_, _)
PrefixLen(q, class) ==
    IF q # <<>> /\ Head(q) \in class THEN 1 + PrefixLen(Tail(q), class) ELSE 0

Drop(q, n) == SubSeq(q, n + 1, Len(q))

\* strings.TrimSpace
RECURSIVE TrimRight(_)
TrimRight(q) ==
    IF q # <<>> /\ q[Len(q)] \in SpaceChars THEN TrimRight(SubSeq(q, 1, Len(q) - 1)) ELSE q
TrimSpace(q) == TrimRight(Drop(q, PrefixLen(q, SpaceChars)))

\* re.FindStringSubmatch for ^(\d+(?:\.\d+)?)\s*([A-Za-z]*)$ : whether the
\* text matches, and the digits before the point, the digits after it and
\* the letters of the second group.
FindStringSubmatch(text) ==
    LET n1 == PrefixLen(text, DigitChars)
        afterInt == Drop(text, n1)
        n2 == IF afterInt # <<>> /\ Head(afterInt) = "."
              THEN PrefixLen(Tail(afterInt), DigitChars) ELSE 0
        afterNum == IF n2 > 0 THEN Drop(afterInt, 1 + n2) ELSE afterInt
        afterSpace == Drop(afterNum, PrefixLen(afterNum, SpaceChars))
        n3 == PrefixLen(afterSpace, LetterChars)
    IN  [matched |-> n1 > 0 /\ n3 = Len(afterSpace),
         int |-> SubSeq(text, 1, n1),
         frac |-> IF n2 > 0 THEN SubSeq(afterInt, 2, 1 + n2) ELSE <<>>,
         unit |-> afterSpace]

\* units := map[string]int64{...}
units ==
    (<<>> :> 1024 * 1024) @@ (<<"k">> :> 1024) @@ (<<"K", "i">> :> 1024)
    @@ (<<"M">> :> 1) @@ (<<"M", "i">> :> 1) @@ (<<"G">> :> 1024)
    @@ (<<"G", "i">> :> 1024) @@ (<<"T">> :> 1024 * 1024)
    @@ (<<"T", "i">> :> 1024 * 1024)

SmallUnits == {<<>>, <<"k">>, <<"K", "i">>}

\* A variant of convertToMiB that rounds up instead of truncating.
convertToMiBRoundingUp(num, den, unit) ==
    IF unit \in SmallUnits
    THEN (num + den * units[unit] - 1) \div (den * units[unit])
    ELSE (num * units[unit] + den - 1) \div den

\* The final conversion of the value num/den: int64(value / multiplier) for
\* the small units, int64(value * multiplier) for the others.
convertToMiB(num, den, unit) ==
    IF unit \in SmallUnits
    THEN num \div (den * units[unit])
    ELSE (num * units[unit]) \div den

\* func parseMemoryToMiB(memoryStr string) int64
parseMemoryToMiB(memoryStr) ==
    LET matches == FindStringSubmatch(TrimSpace(memoryStr))
    IN  IF memoryStr = <<>> THEN 0
        ELSE IF ~matches.matched THEN 0
        ELSE IF matches.unit \notin DOMAIN units THEN 0
        ELSE convertToMiB(DigitsValue(matches.int \o matches.frac),
                          PowerOfTen(Len(matches.frac)), matches.unit)

-----------------------------------------------------------------------------
(* Mappers.  A mapper run either returns a content struct or panics.        *)

Returned(content) == [panicked |-> FALSE, content |-> content]
Panicked == [panicked |-> TRUE, content |-> [Name |-> ""]]

\* func MapGenericK8sResource(item) GenericK8sResourceContent
MapGenericK8sResource(item) ==
    [Name |-> GetName(item), Namespace |-> GetNamespace(item)]

\* v, exists := m[key]; x = v.(string): the unchecked assertion panics on
\* any value that is not a string.
AssertionPanics(m, key) == key \in DOMAIN m /\ m[key].t # "string"

\* The "kind/name" and "component@host" joins of mapEventResource, for a
\* map in which first and second, where present, are strings.
JoinPresent(m, first, sep, second) ==
    LET a == IF first \in DOMAIN m THEN m[first].s ELSE ""
    IN  IF second \in DOMAIN m
        THEN IF a # "" THEN a \o sep \o m[second].s ELSE m[second].s
        ELSE a

\* mapEventResource, event.go:64-94: the involvedObject (or source) summary.
EventJoin(obj, field, first, sep, second) ==
    LET r == NestedMap(obj, <<field>>)
    IN  IF ~r.found THEN [panicked |-> FALSE, s |-> ""]
        ELSE IF AssertionPanics(r.val.m, first) \/ AssertionPanics(r.val.m, second)
            THEN [panicked |-> TRUE, s |-> ""]
        ELSE [panicked |-> FALSE, s |-> JoinPresent(r.val.m, first, sep, second)]

\* A variant of eventMessage that reads message only.
eventMessageOnly(item) ==
    LET message == NestedString(item, <<"message">>)
    IN  IF message.found THEN message.val.s ELSE ""

\* The message of event.go:56-62: message, else the note that
\* events.k8s.io objects carry instead.
eventMessage(item) ==
    LET message == NestedString(item, <<"message">>)
        note == NestedString(item, <<"note">>)
    IN  IF message.found THEN message.val.s
        ELSE IF note.found THEN note.val.s ELSE ""

\* func mapEventResource(item) any, run at clock value clock.
mapEventResource(item, clock) ==
    LET eventType == NestedString(item, <<"type">>)
        reason == NestedString(item, <<"reason">>)
        involved == EventJoin(item, "involvedObject", "kind", "/", "name")
        source == EventJoin(item, "source", "component", "@", "host")
        count == NestedInt64(item, <<"count">>)
        firstTimestamp == NestedString(item, <<"firstTimestamp">>)
        lastTimestamp == NestedString(item, <<"lastTimestamp">>)
        eventTime == NestedString(item, <<"eventTime">>)
        first == IF firstTimestamp.found THEN firstTimestamp.val.s ELSE ""
        ageFirst == IF firstTimestamp.found /\ ParseRFC3339(first).ok
                    THEN ParseRFC3339(first).t ELSE ZeroTime
        ageTime == IF eventTime.found /\ first = "" /\ ParseRFC3339(eventTime.val.s).ok
                   THEN ParseRFC3339(eventTime.val.s).t ELSE ageFirst
    IN  IF involved.panicked \/ source.panicked THEN Panicked
        ELSE Returned([
            Name |-> GetName(item),
            Namespace |-> GetNamespace(item),
            Type |-> IF eventType.found THEN eventType.val.s ELSE "",
            Reason |-> IF reason.found THEN reason.val.s ELSE "",
            Message |-> eventMessage(item),
            InvolvedObject |-> involved.s,
            Source |-> source.s,
            Count |-> IF count.found THEN count.val.n ELSE 0,
            FirstTimestamp |-> first,
            LastTimestamp |-> IF lastTimestamp.found THEN lastTimestamp.val.s ELSE "",
            EventTime |-> IF eventTime.found THEN eventTime.val.s ELSE "",
            Age |-> IF ~ageTime.isZero THEN formatSince(ageTime, clock) ELSE ""])

\* The Ready condition: the last condition of type "Ready" that carries a
\* string status decides (node.go:39-53).
RECURSIVE nodeStatus(_, _)
nodeStatus(conditions, status) ==
    IF conditions = <<>> THEN status
    ELSE LET condition == Head(conditions)
             condType == NestedString(condition, <<"type">>)
             condStatus == NestedString(condition, <<"status">>)
             next == IF condition.t = "map" /\ condType.found
                        /\ condType.val.s = "Ready" /\ condStatus.found
                     THEN IF condStatus.val.s = "True" THEN "Ready" ELSE "NotReady"
                     ELSE status
         IN  nodeStatus(Tail(conditions), next)

LabelMaster == "node-role.kubernetes.io/master"
LabelWorker == "node-role.kubernetes.io/worker"
LabelBare == "node-role.kubernetes.io/"
LabelZone == "topology.kubernetes.io/zone"

\* strings.HasPrefix and strings.TrimPrefix with "node-role.kubernetes.io/",
\* on the label keys of the model.
HasRolePrefix(key) == key \in {LabelMaster, LabelWorker, LabelBare}
TrimRolePrefix(key) ==
    CASE key = LabelMaster -> "master"
      [] key = LabelWorker -> "worker"
      [] key = LabelBare -> ""
      [] OTHER -> key

\* The orders in which "for key := range labels" can visit a key set: Go
\* leaves the iteration order of a map unspecified.
Orderings(keys) ==
    {q \in [1..Cardinality(keys) -> keys] :
        \A i, j \in 1..Cardinality(keys) : i # j => q[i] # q[j]}

\* The roles collected by the loop of node.go:58-65, visiting keys in order.
RECURSIVE collectRoles(_)
collectRoles(order) ==
    IF order = <<>> THEN <<>>
    ELSE LET key == Head(order)
             role == TrimRolePrefix(key)
         IN  (IF HasRolePrefix(key) /\ role # "" THEN <<role>> ELSE <<>>)
                 \o collectRoles(Tail(order))

\* item.GetLabels(): nil unless metadata.labels is a map of strings.
GetLabels(item) == NestedStringMap(item, <<"metadata", "labels">>)

\* The last address of the given type that carries a string address
\* (node.go:78-93).
RECURSIVE nodeAddress(_, _, _)
nodeAddress(addresses, type, ip) ==
    IF addresses = <<>> THEN ip
    ELSE LET address == Head(addresses)
             addrType == NestedString(address, <<"type">>)
             addr == NestedString(address, <<"address">>)
             next == IF address.t = "map" /\ addrType.found /\ addr.found
                        /\ addrType.val.s = type
                     THEN addr.val.s ELSE ip
         IN  nodeAddress(Tail(addresses), type, next)

\* func mapNodeResource(item) any, with the map iteration visiting the label
\* keys in the given order.
mapNodeResource(item, order) ==
    LET conditions == NestedSlice(item, <<"status", "conditions">>)
        labels == GetLabels(item)
        roles == collectRoles(order)
        addresses == NestedSlice(item, <<"status", "addresses">>)
    IN  [Name |-> GetName(item),
         Status |-> IF conditions.found THEN nodeStatus(conditions.val.l, "") ELSE "",
         Roles |-> IF labels.found
                   THEN IF roles = <<>> THEN <<"<none>">> ELSE roles
                   ELSE <<>>,
         Age |-> "",
         Version |-> getNestedString(item, <<"status", "nodeInfo", "kubeletVersion">>),
         InternalIP |-> IF addresses.found
                        THEN nodeAddress(addresses.val.l, "InternalIP", "") ELSE "",
         ExternalIP |-> IF addresses.found
                        THEN nodeAddress(addresses.val.l, "ExternalIP", "") ELSE "",
         OSImage |-> getNestedString(item, <<"status", "nodeInfo", "osImage">>),
         KernelVersion |-> getNestedString(item, <<"status", "nodeInfo", "kernelVersion">>),
         ContainerRuntime |->
             getNestedString(item, <<"status", "nodeInfo", "containerRuntimeVersion">>)]

\* names[key].(string) with the comma-ok form: "" on a missing key or a
\* value of another type.
stringOr(m, key) == IF key \in DOMAIN m /\ m[key].t = "string" THEN m[key].s ELSE ""

\* The names of the spec.versions entries (list_k8s_resources.go:255-263).
RECURSIVE crdVersions(_)
crdVersions(versions) ==
    IF versions = <<>> THEN <<>>
    ELSE LET v == Head(versions)
         IN  (IF v.t = "map" /\ "name" \in DOMAIN v.m /\ v.m["name"].t = "string"
              THEN <<v.m["name"].s>> ELSE <<>>) \o crdVersions(Tail(versions))

\* func mapCustomResourceDefinitionResource(item) any, run at clock value
\* clock.
mapCustomResourceDefinitionResource(item, clock) ==
    LET names == NestedMap(item, <<"spec", "names">>)
        shortNames == IF names.found /\ "shortNames" \in DOMAIN names.val.m
                         /\ names.val.m["shortNames"].t = "slice"
                      THEN names.val.m["shortNames"].l ELSE <<>>
        versions == NestedSlice(item, <<"spec", "versions">>)
    IN  [Name |-> GetName(item),
         Group |-> getNestedString(item, <<"spec", "group">>),
         Kind |-> IF names.found THEN stringOr(names.val.m, "kind") ELSE "",
         Scope |-> getNestedString(item, <<"spec", "scope">>),
         Versions |-> IF versions.found THEN crdVersions(versions.val.l) ELSE <<>>,
         Age |-> formatSince(GetCreationTimestamp(item), clock),
         Singular |-> IF names.found THEN stringOr(names.val.m, "singular") ELSE "",
         Plural |-> IF names.found THEN stringOr(names.val.m, "plural") ELSE "",
         ShortName |-> IF shortNames # <<>> /\ shortNames[1].t = "string"
                       THEN shortNames[1].s ELSE ""]

\* The characters of the memory quantities carried by the objects of the
\* model: a Go string is the sequence of its bytes.
StringChars(str) ==
    CASE str = "" -> <<>>
      [] str = "128Mi" -> <<"1", "2", "8", "M", "i">>
      [] str = "1Gi" -> <<"1", "G", "i">>
      [] str = "1.5Gi" -> <<"1", ".", "5", "G", "i">>
      [] str = "1.5Mi" -> <<"1", ".", "5", "M", "i">>
      [] str = "2.5Mi" -> <<"2", ".", "5", "M", "i">>
      [] str = "2048k" -> <<"2", "0", "4", "8", "k">>
      [] str = "invalid" -> <<"i", "n", "v", "a", "l", "i", "d">>

\* A variant of sumMemory that adds the quantities up in tenths of a MiB
\* and truncates the total once.
RECURSIVE memoryTenths(_, _)
memoryTenths(containers, resource) ==
    IF containers = <<>> THEN 0
    ELSE LET c == Head(containers)
             mem == NestedString(c, <<"resources", resource, "memory">>)
             matches == FindStringSubmatch(TrimSpace(StringChars(mem.val.s)))
         IN  (IF c.t # "map" \/ ~mem.found THEN 0
              ELSE IF matches.matched /\ matches.unit \in {<<"M", "i">>, <<"G", "i">>}
                  THEN (DigitsValue(matches.int \o matches.frac) * units[matches.unit] * 10)
                           \div PowerOfTen(Len(matches.frac))
              ELSE 10 * parseMemoryToMiB(StringChars(mem.val.s)))
                 + memoryTenths(Tail(containers), resource)

sumMemoryTruncatedOnce(containers, resource) == memoryTenths(containers, resource) \div 10

\* The loop of part_008:99-110 for one of "requests" and "limits": the sum
\* of the parsed memory quantities of the containers.
RECURSIVE sumMemory(_, _)
sumMemory(containers, resource) ==
    IF containers = <<>> THEN 0
    ELSE LET c == Head(containers)
             mem == NestedString(c, <<"resources", resource, "memory">>)
         IN  (IF c.t = "map" /\ mem.found
              THEN parseMemoryToMiB(StringChars(mem.val.s)) ELSE 0)
                 + sumMemory(Tail(containers), resource)

\* <state>.terminated.reason of one container status, read map by map.
terminatedReason(containerMap, state) ==
    LET st == NestedMap(containerMap, <<state>>)
        terminated == IF st.found THEN NestedMap(st.val, <<"terminated">>) ELSE NotFound
    IN  IF terminated.found THEN NestedString(terminated.val, <<"reason">>) ELSE NotFound

\* A variant of oomKillsOf that looks at lastState only.
oomKillsOfLastState(containerMap) ==
    LET last == terminatedReason(containerMap, "lastState")
    IN  IF last.found /\ last.val.s = "OOMKilled" THEN 1 ELSE 0

\* The increments of oomKills one container status causes: one for
\* lastState.terminated, one for state.terminated.
oomKillsOf(containerMap) ==
    LET last == terminatedReason(containerMap, "lastState")
        current == terminatedReason(containerMap, "state")
    IN  (IF last.found /\ last.val.s = "OOMKilled" THEN 1 ELSE 0)
          + (IF current.found /\ current.val.s = "OOMKilled" THEN 1 ELSE 0)

\* The loop over status.containerStatuses, part_008:124-156, from the
\* counters in acc.
RECURSIVE containerStatuses(_, _)
containerStatuses(containers, acc) ==
    IF containers = <<>> THEN acc
    ELSE LET c == Head(containers)
             r == NestedBool(c, <<"ready">>)
             rc == NestedInt64(c, <<"restartCount">>)
             last == terminatedReason(c, "lastState")
             next == IF c.t # "map" THEN acc
                     ELSE [ready |-> acc.ready + (IF r.found /\ r.val.b THEN 1 ELSE 0),
                           restarts |-> acc.restarts + (IF rc.found THEN rc.val.n ELSE 0),
                           oomKills |-> acc.oomKills + oomKillsOf(c),
                           lastTerminationReason |->
                               IF last.found THEN last.val.s
                               ELSE acc.lastTerminationReason]
         IN  containerStatuses(Tail(containers), next)

\* func mapPodResource(item) interface{}
mapPodResource(item) ==
    LET status == NestedString(item, <<"status", "phase">>)
        containers == NestedSlice(item, <<"spec", "containers">>)
        statuses == NestedSlice(item, <<"status", "containerStatuses">>)
        counted == containerStatuses(
            IF statuses.found THEN statuses.val.l ELSE <<>>,
            [ready |-> 0, restarts |-> 0, oomKills |-> 0, lastTerminationReason |-> ""])
    IN  [Name |-> GetName(item),
         Namespace |-> GetNamespace(item),
         Status |-> IF status.found THEN status.val.s ELSE "",
         Ready |-> IF statuses.found
                   THEN ToString(counted.ready) \o "/" \o ToString(Len(statuses.val.l))
                   ELSE "",
         Restarts |-> counted.restarts,
         Age |-> "",
         MemoryRequestMiB |->
             IF containers.found THEN sumMemory(containers.val.l, "requests") ELSE 0,
         MemoryLimitMiB |->
             IF containers.found THEN sumMemory(containers.val.l, "limits") ELSE 0,
         OOMKills |-> counted.oomKills,
         LastTerminationReason |-> counted.lastTerminationReason]

\* A variant of readyOf that reports readyReplicas also when there is no
\* replicas count.
readyOfReadyAlone(replicas, readyReplicas) ==
    IF replicas.found
    THEN (IF readyReplicas.found THEN ToString(readyReplicas.val.n) ELSE "0")
             \o "/" \o ToString(replicas.val.n)
    ELSE IF readyReplicas.found THEN ToString(readyReplicas.val.n) \o "/0"
    ELSE ""

\* The "ready/replicas" column of Deployments and StatefulSets.
readyOf(replicas, readyReplicas) ==
    IF ~replicas.found THEN ""
    ELSE IF readyReplicas.found
        THEN ToString(readyReplicas.val.n) \o "/" \o ToString(replicas.val.n)
    ELSE "0/" \o ToString(replicas.val.n)

\* A variant of int64Or whose value for a field that is not found is one.
int64OrOne(item, fields) ==
    IF NestedInt64(item, fields).found THEN NestedInt64(item, fields).val.n ELSE 1

\* An int64 field read with NestedInt64: the zero value when not found.
int64Or(item, fields) ==
    LET r == NestedInt64(item, fields) IN IF r.found THEN r.val.n ELSE 0

\* func mapDeploymentResource(item) any
mapDeploymentResource(item) ==
    [Name |-> GetName(item),
     Namespace |-> GetNamespace(item),
     Ready |-> readyOf(NestedInt64(item, <<"status", "replicas">>),
                       NestedInt64(item, <<"status", "readyReplicas">>)),
     UpToDate |-> int64Or(item, <<"status", "updatedReplicas">>),
     Available |-> int64Or(item, <<"status", "availableReplicas">>),
     Age |-> ""]

\* func mapDaemonSetResource(item) interface{}
mapDaemonSetResource(item) ==
    [Name |-> GetName(item),
     Namespace |-> GetNamespace(item),
     Desired |-> int64Or(item, <<"status", "desiredNumberScheduled">>),
     Current |-> int64Or(item, <<"status", "currentNumberScheduled">>),
     Ready |-> int64Or(item, <<"status", "numberReady">>),
     UpToDate |-> int64Or(item, <<"status", "updatedNumberScheduled">>),
     Available |-> int64Or(item, <<"status", "numberAvailable">>),
     Age |-> ""]

\* func mapStatefulSetResource(item) interface{}
mapStatefulSetResource(item) ==
    [Name |-> GetName(item),
     Namespace |-> GetNamespace(item),
     Ready |-> readyOf(NestedInt64(item, <<"spec", "replicas">>),
                       NestedInt64(item, <<"status", "readyReplicas">>)),
     Age |-> ""]

\* The string elements of a []any, in order (service.go:45-51).
RECURSIVE stringsOf(_)
stringsOf(values) ==
    IF values = <<>> THEN <<>>
    ELSE (IF Head(values).t = "string" THEN <<Head(values).s>> ELSE <<>>)
             \o stringsOf(Tail(values))

\* A variant of servicePort that shows the first entry that has a port.
RECURSIVE servicePortOfAny(_)
servicePortOfAny(ports) ==
    LET port == NestedInt64(ports[1], <<"port">>)
        protocol == NestedString(ports[1], <<"protocol">>)
    IN  IF ports[1].t # "map" \/ ~port.found
        THEN IF Len(ports) > 1 THEN servicePortOfAny(Tail(ports)) ELSE ""
        ELSE IF protocol.found THEN ToString(port.val.n) \o "/" \o protocol.val.s
        ELSE ToString(port.val.n)

\* The port column: the first port, with its protocol when it has one.
servicePort(ports) ==
    LET port == NestedInt64(ports[1], <<"port">>)
        protocol == NestedString(ports[1], <<"protocol">>)
    IN  IF ports[1].t # "map" \/ ~port.found THEN ""
        ELSE IF protocol.found THEN ToString(port.val.n) \o "/" \o protocol.val.s
        ELSE ToString(port.val.n)

\* func mapServiceResource(item) interface{}
mapServiceResource(item) ==
    LET externalIPs == NestedSlice(item, <<"spec", "externalIPs">>)
        ports == NestedSlice(item, <<"spec", "ports">>)
    IN  [Name |-> GetName(item),
         Namespace |-> GetNamespace(item),
         Type |-> getNestedString(item, <<"spec", "type">>),
         ClusterIP |-> getNestedString(item, <<"spec", "clusterIP">>),
         ExternalIP |-> IF externalIPs.found THEN stringsOf(externalIPs.val.l) ELSE <<>>,
         Port |-> IF ports.found /\ Len(ports.val.l) > 0
                  THEN servicePort(ports.val.l) ELSE "",
         Age |-> ""]

\* The loop of ingress.go:42-48: the non-empty host of every rule, appended
\* in rule order.
RECURSIVE ruleHosts(_)
ruleHosts(rules) ==
    IF rules = <<>> THEN <<>>
    ELSE LET rule == Head(rules)
             host == NestedString(rule, <<"host">>)
         IN  (IF rule.t = "map" /\ host.found /\ host.val.s # ""
              THEN <<host.val.s>> ELSE <<>>) \o ruleHosts(Tail(rules))

\* The loop of ingress.go:54-63: ip, then hostname, of every load balancer
\* entry.
RECURSIVE lbAddresses(_)
lbAddresses(lbIngress) ==
    IF lbIngress = <<>> THEN <<>>
    ELSE LET lb == Head(lbIngress)
             ip == NestedString(lb, <<"ip">>)
             hostname == NestedString(lb, <<"hostname">>)
         IN  (IF lb.t = "map" /\ ip.found /\ ip.val.s # "" THEN <<ip.val.s>> ELSE <<>>)
              \o (IF lb.t = "map" /\ hostname.found /\ hostname.val.s # ""
                  THEN <<hostname.val.s>> ELSE <<>>)
              \o lbAddresses(Tail(lbIngress))

\* strings.Join(elems, sep)
RECURSIVE stringsJoin(_, _)
stringsJoin(elems, sep) ==
    IF elems = <<>> THEN ""
    ELSE IF Len(elems) = 1 THEN elems[1]
    ELSE elems[1] \o sep \o stringsJoin(Tail(elems), sep)

\* func mapIngressResource(item) interface{}
mapIngressResource(item) ==
    LET rules == NestedSlice(item, <<"spec", "rules">>)
        lbIngress == NestedSlice(item, <<"status", "loadBalancer", "ingress">>)
    IN  [Name |-> GetName(item),
         Namespace |-> GetNamespace(item),
         Class |-> getNestedString(item, <<"spec", "ingressClassName">>),
         Hosts |-> IF rules.found THEN ruleHosts(rules.val.l) ELSE <<>>,
         Address |-> IF lbIngress.found
                     THEN stringsJoin(lbAddresses(lbIngress.val.l), ",") ELSE "",
         Ports |-> "80,443",
         Age |-> ""]

\* func mapJobResource(item) any
mapJobResource(item) ==
    LET succeeded == int64Or(item, <<"status", "succeeded">>)
        failed == int64Or(item, <<"status", "failed">>)
        completions == NestedInt64(item, <<"spec", "completions">>)
        startTime == NestedString(item, <<"status", "startTime">>)
        completionTime == NestedString(item, <<"status", "completionTime">>)
    IN  [Name |-> GetName(item),
         Namespace |-> GetNamespace(item),
         Completions |->
             (IF completions.found
              THEN ToString(succeeded) \o "/" \o ToString(completions.val.n)
              ELSE ToString(succeeded))
             \o (IF failed > 0 THEN " (" \o ToString(failed) \o " failed)" ELSE ""),
         Duration |-> IF startTime.found /\ startTime.val.s # ""
                      THEN IF completionTime.found /\ completionTime.val.s # ""
                           THEN "completed" ELSE "running"
                      ELSE "",
         Age |-> ""]

\* func mapCronJobResource(item) interface{}
mapCronJobResource(item) ==
    LET suspend == NestedBool(item, <<"spec", "suspend">>)
        active == NestedSlice(item, <<"status", "active">>)
    IN  [Name |-> GetName(item),
         Namespace |-> GetNamespace(item),
         Schedule |-> getNestedString(item, <<"spec", "schedule">>),
         Suspend |-> IF suspend.found THEN suspend.val.b ELSE FALSE,
         Active |-> IF active.found THEN Len(active.val.l) ELSE 0,
         LastSchedule |-> getNestedString(item, <<"status", "lastScheduleTime">>),
         Age |-> ""]

-----------------------------------------------------------------------------
(* encoding/json on the content structs: the json tags and omitempty       *)

\* One struct field: its json key, its Go name, its Go type and whether the
\* tag says omitempty.
Tag(key, field, type, omitempty) ==
    [key |-> key, field |-> field, type |-> type, omitempty |-> omitempty]

NameTag == Tag("name", "Name", "string", FALSE)
NamespaceTag == Tag("namespace", "Namespace", "string", TRUE)
AgeTag == Tag("age", "Age", "string", TRUE)

GenericTags == {NameTag, NamespaceTag}

EventTags ==
    {NameTag, NamespaceTag,
     Tag("type", "Type", "string", TRUE), Tag("reason", "Reason", "string", TRUE),
     Tag("message", "Message", "string", TRUE),
     Tag("involvedObject", "InvolvedObject", "string", TRUE),
     Tag("source", "Source", "string", TRUE), Tag("count", "Count", "int64", TRUE),
     Tag("firstTimestamp", "FirstTimestamp", "string", TRUE),
     Tag("lastTimestamp", "LastTimestamp", "string", TRUE),
     Tag("eventTime", "EventTime", "string", TRUE), AgeTag}

NodeTags ==
    {NameTag, Tag("status", "Status", "string", TRUE),
     Tag("roles", "Roles", "[]string", TRUE), AgeTag,
     Tag("version", "Version", "string", TRUE),
     Tag("internalIP", "InternalIP", "string", TRUE),
     Tag("externalIP", "ExternalIP", "string", TRUE),
     Tag("osImage", "OSImage", "string", TRUE),
     Tag("kernelVersion", "KernelVersion", "string", TRUE),
     Tag("containerRuntime", "ContainerRuntime", "string", TRUE)}

CustomResourceDefinitionTags ==
    {NameTag, Tag("group", "Group", "string", TRUE), Tag("kind", "Kind", "string", TRUE),
     Tag("scope", "Scope", "string", TRUE), Tag("versions", "Versions", "[]string", TRUE),
     AgeTag, Tag("singular", "Singular", "string", TRUE),
     Tag("plural", "Plural", "string", TRUE), Tag("shortName", "ShortName", "string", TRUE)}

PodTags ==
    {NameTag, NamespaceTag, Tag("status", "Status", "string", TRUE),
     Tag("ready", "Ready", "string", TRUE), Tag("restarts", "Restarts", "int64", TRUE),
     AgeTag, Tag("memoryRequestMiB", "MemoryRequestMiB", "int64", TRUE),
     Tag("memoryLimitMiB", "MemoryLimitMiB", "int64", TRUE),
     Tag("oomKills", "OOMKills", "int64", TRUE),
     Tag("lastTerminationReason", "LastTerminationReason", "string", TRUE)}

DeploymentTags ==
    {NameTag, NamespaceTag, Tag("ready", "Ready", "string", TRUE),
     Tag("upToDate", "UpToDate", "int64", TRUE),
     Tag("available", "Available", "int64", TRUE), AgeTag}

DaemonSetTags ==
    {NameTag, NamespaceTag, Tag("desired", "Desired", "int64", TRUE),
     Tag("current", "Current", "int64", TRUE), Tag("ready", "Ready", "int64", TRUE),
     Tag("upToDate", "UpToDate", "int64", TRUE),
     Tag("available", "Available", "int64", TRUE), AgeTag}

StatefulSetTags == {NameTag, NamespaceTag, Tag("ready", "Ready", "string", TRUE), AgeTag}

ServiceTags ==
    {NameTag, NamespaceTag, Tag("type", "Type", "string", TRUE),
     Tag("clusterIP", "ClusterIP", "string", TRUE),
     Tag("externalIP", "ExternalIP", "[]string", TRUE),
     Tag("port", "Port", "string", TRUE), AgeTag}

IngressTags ==
    {NameTag, NamespaceTag, Tag("class", "Class", "string", TRUE),
     Tag("hosts", "Hosts", "[]string", TRUE), Tag("address", "Address", "string", TRUE),
     Tag("ports", "Ports", "string", TRUE), AgeTag}

JobTags ==
    {NameTag, NamespaceTag, Tag("completions", "Completions", "string", TRUE),
     Tag("duration", "Duration", "string", TRUE), AgeTag}

CronJobTags ==
    {NameTag, NamespaceTag, Tag("schedule", "Schedule", "string", TRUE),
     Tag("suspend", "Suspend", "bool", TRUE), Tag("active", "Active", "int64", TRUE),
     Tag("lastSchedule", "LastSchedule", "string", TRUE), AgeTag}

\* The empty value omitempty tests a field against: "" for a string, 0 for
\* a number, false for a bool, a nil or empty slice for a list.
EmptyValue(type) ==
    CASE type = "string" -> ""
      [] type = "int64" -> 0
      [] type = "bool" -> FALSE
      [] type = "[]string" -> <<>>

\* A variant of jsonMarshal that ignores omitempty and writes every field.
jsonMarshalAll(content, tags) ==
    [key \in {t.key : t \in tags} |->
        content[(CHOOSE t \in tags : t.key = key).field]]

\* json.Marshal of a content struct: the object's members by key.
jsonMarshal(content, tags) ==
    [key \in {t.key : t \in {u \in tags :
                ~u.omitempty \/ content[u.field] # EmptyValue(u.type)}} |->
        content[(CHOOSE t \in tags : t.key = key).field]]

-----------------------------------------------------------------------------
(* The registry as the package's init functions leave it                   *)

KindPod == <<80, 111, 100>>
KindDeployment == <<68, 101, 112, 108, 111, 121, 109, 101, 110, 116>>
KindDaemonSet == <<68, 97, 101, 109, 111, 110, 83, 101, 116>>
KindStatefulSet == <<83, 116, 97, 116, 101, 102, 117, 108, 83, 101, 116>>
KindService == <<83, 101, 114, 118, 105, 99, 101>>
KindIngress == <<73, 110, 103, 114, 101, 115, 115>>
KindJob == <<74, 111, 98>>
KindCronJob == <<67, 114, 111, 110, 74, 111, 98>>
KindNode == <<78, 111, 100, 101>>
KindEvent == <<69, 118, 101, 110, 116>>
KindCustomResourceDefinition == <<67, 117, 115, 116, 111, 109, 82, 101, 115, 111, 117, 114, 99, 101, 68, 101, 102, 105, 110, 105, 116, 105, 111, 110>>
KindEventLower == <<101, 118, 101, 110, 116>>

GVK(group, version, kind) == [Group |-> group, Version |-> version, Kind |-> kind]

\* The Register calls of the init functions of package mapper.
InitRegistrations ==
    <<[gvk |-> GVK("batch", "v1", KindCronJob), mapper |-> "mapCronJobResource"],
      [gvk |-> GVK("apps", "v1", KindDaemonSet), mapper |-> "mapDaemonSetResource"],
      [gvk |-> GVK("apps", "v1", KindDeployment), mapper |-> "mapDeploymentResource"],
      [gvk |-> GVK("", "v1", KindEvent), mapper |-> "mapEventResource"],
      [gvk |-> GVK("events.k8s.io", "v1beta1", KindEvent), mapper |-> "mapEventResource"],
      [gvk |-> GVK("networking.k8s.io", "v1", KindIngress), mapper |-> "mapIngressResource"],
      [gvk |-> GVK("batch", "v1", KindJob), mapper |-> "mapJobResource"],
      [gvk |-> GVK("", "v1", KindNode), mapper |-> "mapNodeResource"],
      [gvk |-> GVK("", "v1", KindPod), mapper |-> "mapPodResource"],
      [gvk |-> GVK("", "v1", KindService), mapper |-> "mapServiceResource"],
      [gvk |-> GVK("apps", "v1", KindStatefulSet), mapper |-> "mapStatefulSetResource"],
      [gvk |-> GVK("apiextensions.k8s.io", "v1", KindCustomResourceDefinition),
       mapper |-> "mapCustomResourceDefinitionResource"],
      [gvk |-> GVK("apiextensions.k8s.io", "v1beta1", KindCustomResourceDefinition),
       mapper |-> "mapCustomResourceDefinitionResource"]>>

\* The map after the first n of those calls.
RECURSIVE RegistryAfter(_)
RegistryAfter(n) ==
    IF n = 0 THEN <<>>
    ELSE registerInto(RegistryAfter(n - 1),
                      InitRegistrations[n].gvk, InitRegistrations[n].mapper)

InitializedRegistry == RegistryAfter(Len(InitRegistrations))

-----------------------------------------------------------------------------
(* The content projection dispatcher, content.go:12-41                     *)

TagsOf(type) ==
    CASE type = "GenericK8sResourceContent" -> GenericTags
      [] type = "EventListContent" -> EventTags
      [] type = "NodeListContent" -> NodeTags
      [] type = "CustomResourceDefinitionListContent" -> CustomResourceDefinitionTags
      [] type = "PodListContent" -> PodTags
      [] type = "DeploymentListContent" -> DeploymentTags
      [] type = "DaemonSetListContent" -> DaemonSetTags
      [] type = "StatefulSetListContent" -> StatefulSetTags
      [] type = "ServiceListContent" -> ServiceTags
      [] type = "IngressListContent" -> IngressTags
      [] type = "JobListContent" -> JobTags
      [] type = "CronJobListContent" -> CronJobTags

\* What one mapper run leaves behind: a content struct of some type, or a
\* panic.
Projection(type, content) == [panicked |-> FALSE, type |-> type, content |-> content]
PanicProjection == [panicked |-> TRUE, type |-> "", content |-> [Name |-> ""]]

\* toJSONToolResult's json.Marshal of one projection.
toJSON(projection) == jsonMarshal(projection.content, TagsOf(projection.type))

\* resourceMapper(item) for each registered mapper function.
ApplyMapper(mapper, item, clock, order) ==
    CASE mapper = "mapEventResource" ->
            LET r == mapEventResource(item, clock)
            IN  IF r.panicked THEN PanicProjection
                ELSE Projection("EventListContent", r.content)
      [] mapper = "mapNodeResource" ->
            Projection("NodeListContent", mapNodeResource(item, order))
      [] mapper = "mapCustomResourceDefinitionResource" ->
            Projection("CustomResourceDefinitionListContent",
                       mapCustomResourceDefinitionResource(item, clock))
      [] mapper = "mapPodResource" ->
            Projection("PodListContent", mapPodResource(item))
      [] mapper = "mapDeploymentResource" ->
            Projection("DeploymentListContent", mapDeploymentResource(item))
      [] mapper = "mapDaemonSetResource" ->
            Projection("DaemonSetListContent", mapDaemonSetResource(item))
      [] mapper = "mapStatefulSetResource" ->
            Projection("StatefulSetListContent", mapStatefulSetResource(item))
      [] mapper = "mapServiceResource" ->
            Projection("ServiceListContent", mapServiceResource(item))
      [] mapper = "mapIngressResource" ->
            Projection("IngressListContent", mapIngressResource(item))
      [] mapper = "mapJobResource" ->
            Projection("JobListContent", mapJobResource(item))
      [] mapper = "mapCronJobResource" ->
            Projection("CronJobListContent", mapCronJobResource(item))

\* The if/else on hasCustomMapper, for one item.
projectWith(lookup, item, clock, order) ==
    IF lookup.found
    THEN ApplyMapper(lookup.mapper, item, clock, order)
    ELSE Projection("GenericK8sResourceContent", MapGenericK8sResource(item))

ProjectionResult(gvk, lookup, lookups, out) ==
    [gvk |-> gvk, mapper |-> lookup.mapper, found |-> lookup.found,
     lookups |-> lookups,
     panicked |-> \E i \in DOMAIN out : out[i].panicked,
     out |-> IF \E i \in DOMAIN out : out[i].panicked THEN <<>> ELSE out]

\* func mapToK8sResourceListContent(list, gvk) []interface{}, reading the
\* registry rm: one mapper.Get before the loop, then one projection per item.
mapToK8sResourceListContent(rm, items, gvk, clock, orders) ==
    LET lookup == getFrom(rm, gvk)
    IN  ProjectionResult(gvk, lookup, 1,
            [i \in 1..Len(items) |-> projectWith(lookup, items[i], clock, orders[i])])

\* func mapToK8sResourceContent(resource, gvk) interface{}.
mapToK8sResourceContent(rm, resource, gvk, clock, order) ==
    LET lookup == getFrom(rm, gvk)
    IN  ProjectionResult(gvk, lookup, 1, <<projectWith(lookup, resource, clock, order)>>)

-----------------------------------------------------------------------------
(* Projection runs: objects handed to the dispatcher                       *)

MaxItems == 2
MaxClock == 2

Meta(name, namespace) == JMap(("name" :> JStr(name)) @@ ("namespace" :> JStr(namespace)))

ItemNamespaced == JMap("metadata" :> Meta("web", "default"))
ItemClusterScoped == JMap("metadata" :> JMap("name" :> JStr("node-1")))
ItemNoMetadata == JMap(EmptyMap)
ItemNumericName ==
    JMap("metadata" :> JMap(("name" :> JInt(7)) @@ ("namespace" :> JStr("default"))))

ItemEvent ==
    JMap(("metadata" :> Meta("web.1", "default"))
      @@ ("type" :> JStr("Warning")) @@ ("reason" :> JStr("BackOff"))
      @@ ("message" :> JStr("restarting"))
      @@ ("involvedObject" :> JMap(("kind" :> JStr("Pod")) @@ ("name" :> JStr("web"))))
      @@ ("source" :> JMap(("component" :> JStr("kubelet")) @@ ("host" :> JStr("node-1"))))
      @@ ("count" :> JInt(3))
      @@ ("firstTimestamp" :> JStr(TsMinuteAgo)) @@ ("lastTimestamp" :> JStr(TsFuture)))

\* The events.k8s.io/v1beta1 shape: note and eventTime.
ItemEventBeta ==
    JMap(("metadata" :> Meta("web.2", "default"))
      @@ ("type" :> JStr("Normal")) @@ ("reason" :> JStr("Pulled"))
      @@ ("note" :> JStr("image pulled"))
      @@ ("eventTime" :> JStr(TsHourAgo)))

\* The same shape with an eventTime that is no RFC 3339 timestamp.
ItemEventBetaBadTime ==
    JMap(("metadata" :> Meta("web.5", "default"))
      @@ ("note" :> JStr("scheduled"))
      @@ ("eventTime" :> JStr("yesterday")))

\* involvedObject.kind is a number.
ItemEventNumericKind ==
    JMap(("metadata" :> Meta("web.3", "default"))
      @@ ("involvedObject" :> JMap(("kind" :> JInt(1)) @@ ("name" :> JStr("web")))))

\* source.host is a number.
ItemEventNumericHost ==
    JMap(("metadata" :> Meta("web.4", "default"))
      @@ ("source" :> JMap(("component" :> JStr("kubelet")) @@ ("host" :> JInt(2)))))

ItemNodeTwoRoles ==
    JMap(("metadata" :> JMap(("name" :> JStr("node-1"))
            @@ ("labels" :> JMap((LabelMaster :> JStr("")) @@ (LabelWorker :> JStr(""))))))
      @@ ("status" :> JMap(
            ("conditions" :> JList(<<
                JMap(("type" :> JStr("Ready")) @@ ("status" :> JStr("True")))>>))
         @@ ("addresses" :> JList(<<
                JMap(("type" :> JStr("InternalIP")) @@ ("address" :> JStr("10.0.0.1")))>>))
         @@ ("nodeInfo" :> JMap("kubeletVersion" :> JStr("v1.30.0"))))))

ItemNodeNoRoles ==
    JMap("metadata" :> JMap(("name" :> JStr("node-2"))
            @@ ("labels" :> JMap((LabelZone :> JStr("a")) @@ (LabelBare :> JStr(""))))))

ItemCRD ==
    JMap(("metadata" :> JMap(("name" :> JStr("widgets.example.com"))
            @@ ("creationTimestamp" :> JStr(TsDayAgo))))
      @@ ("spec" :> JMap(("group" :> JStr("example.com")) @@ ("scope" :> JStr("Namespaced"))
            @@ ("names" :> JMap(("kind" :> JStr("Widget")) @@ ("plural" :> JStr("widgets"))
                    @@ ("shortNames" :> JList(<<JStr("wd"), JStr("wdg")>>))))
            @@ ("versions" :> JList(<<JMap("name" :> JStr("v1")), JStr("v2")>>)))))

\* One container status entry with the given lastState and state members.
ContainerStatus(ready, restartCount, lastState, state) ==
    JMap(("ready" :> JBool(ready)) @@ ("restartCount" :> JInt(restartCount))
      @@ ("lastState" :> lastState) @@ ("state" :> state))

Terminated(reason) == JMap("terminated" :> JMap("reason" :> reason))
Running == JMap("running" :> JMap(EmptyMap))

Container(requests, limits) ==
    JMap("resources" :> JMap(("requests" :> JMap("memory" :> JStr(requests)))
                          @@ ("limits" :> JMap("memory" :> JStr(limits)))))

\* One container, OOM-killed before its last restart and again now.
ItemPodOOMTwice ==
    JMap(("metadata" :> Meta("web-0", "default"))
      @@ ("spec" :> JMap("containers" :> JList(<<Container("128Mi", "1Gi")>>)))
      @@ ("status" :> JMap(("phase" :> JStr("Running"))
            @@ ("containerStatuses" :> JList(<<
                    ContainerStatus(FALSE, 2, Terminated(JStr("OOMKilled")),
                                    Terminated(JStr("OOMKilled")))>>)))))

\* Two containers, each OOM-killed once: one in its last state, one in its
\* current state.
ItemPodTwoOOM ==
    JMap(("metadata" :> Meta("web-1", "default"))
      @@ ("spec" :> JMap("containers" :> JList(<<Container("1.5Gi", "2048k"),
                                                 Container("invalid", "")>>)))
      @@ ("status" :> JMap(("phase" :> JStr("Running"))
            @@ ("containerStatuses" :> JList(<<
                    ContainerStatus(TRUE, 1, Terminated(JStr("OOMKilled")), Running),
                    ContainerStatus(FALSE, 0, JMap(EmptyMap),
                                    Terminated(JStr("OOMKilled")))>>)))))

\* Terminations for other reasons, a numeric reason and an entry that is
\* not an object.
ItemPodNoOOM ==
    JMap(("metadata" :> Meta("web-2", "default"))
      @@ ("status" :> JMap(
            "containerStatuses" :> JList(<<
                    ContainerStatus(TRUE, 3, Terminated(JStr("Error")), Running),
                    ContainerStatus(TRUE, 0, Terminated(JInt(137)),
                                    Terminated(JStr("Completed"))),
                    JStr("sidecar")>>))))

\* Four rules: a host, a rule without host, the first host again, an empty
\* host and a second host.
ItemIngressRepeatedHost ==
    JMap(("metadata" :> Meta("web", "default"))
      @@ ("spec" :> JMap(("ingressClassName" :> JStr("nginx"))
            @@ ("rules" :> JList(<<
                    JMap("host" :> JStr("a.example.com")),
                    JMap("http" :> JMap(EmptyMap)),
                    JMap("host" :> JStr("a.example.com")),
                    JMap("host" :> JStr("")),
                    JMap("host" :> JStr("b.example.com"))>>))))
      @@ ("status" :> JMap("loadBalancer" :> JMap("ingress" :> JList(<<
                    JMap(("ip" :> JStr("192.0.2.1")) @@ ("hostname" :> JStr("lb.example.com")))>>)))))

ItemIngressDistinctHosts ==
    JMap(("metadata" :> Meta("api", "default"))
      @@ ("spec" :> JMap("rules" :> JList(<<
                    JMap("host" :> JStr("a.example.com")),
                    JMap("host" :> JStr("b.example.com"))>>))))

\* A workload status as Deployments, StatefulSets and DaemonSets carry it.
ItemWorkload ==
    JMap(("metadata" :> Meta("web", "default"))
      @@ ("spec" :> JMap("replicas" :> JInt(3)))
      @@ ("status" :> JMap(("replicas" :> JInt(3)) @@ ("readyReplicas" :> JInt(2))
            @@ ("updatedReplicas" :> JInt(3)) @@ ("availableReplicas" :> JInt(2))
            @@ ("desiredNumberScheduled" :> JInt(4)) @@ ("numberReady" :> JInt(1)))))

ItemService ==
    JMap(("metadata" :> Meta("web", "default"))
      @@ ("spec" :> JMap(("type" :> JStr("ClusterIP")) @@ ("clusterIP" :> JStr("10.0.0.9"))
            @@ ("externalIPs" :> JList(<<JStr("192.0.2.7"), JInt(1)>>))
            @@ ("ports" :> JList(<<JMap(("port" :> JInt(80)) @@ ("protocol" :> JStr("TCP"))),
                                   JMap("port" :> JInt(443))>>)))))

ItemJob ==
    JMap(("metadata" :> Meta("backup", "default"))
      @@ ("spec" :> JMap("completions" :> JInt(2)))
      @@ ("status" :> JMap(("succeeded" :> JInt(1)) @@ ("failed" :> JInt(1))
            @@ ("startTime" :> JStr(TsHourAgo)))))

ItemCronJob ==
    JMap(("metadata" :> Meta("nightly", "default"))
      @@ ("spec" :> JMap(("schedule" :> JStr("0 0 * * *")) @@ ("suspend" :> JBool(TRUE))))
      @@ ("status" :> JMap(("active" :> JList(<<JMap(EmptyMap)>>))
            @@ ("lastScheduleTime" :> JStr(TsDayAgo)))))

Items ==
    {ItemNamespaced, ItemClusterScoped, ItemNoMetadata, ItemNumericName,
     ItemEvent, ItemEventBeta, ItemEventBetaBadTime,
     ItemEventNumericKind, ItemEventNumericHost,
     ItemNodeTwoRoles, ItemNodeNoRoles, ItemCRD,
     ItemPodOOMTwice, ItemPodTwoOOM, ItemPodNoOOM,
     ItemIngressRepeatedHost, ItemIngressDistinctHosts,
     ItemWorkload, ItemService, ItemJob, ItemCronJob}

\* Objects that lists are built from.
ListItems ==
    {ItemNamespaced, ItemClusterScoped, ItemEvent, ItemEventNumericKind, ItemNodeTwoRoles}

ItemLists == SeqsUpTo(ListItems, MaxItems)

\* Identities handed to the dispatcher: registered ones, one that reaches a
\* registered one through normalisation, and unregistered ones (a kind with
\* no mapper, a registered kind under another group, a version in another
\* casing).
ProjectGVKs ==
    {GVK("", "v1", KindEvent), GVK("", "v1", KindEventLower),
     GVK("events.k8s.io", "v1beta1", KindEvent), GVK("", "v1", KindNode),
     GVK("apiextensions.k8s.io", "v1", KindCustomResourceDefinition),
     GVK("", "v1", KindConfigMap), GVK("apps", "v1", KindEvent),
     GVK("", "V1", KindNode),
     GVK("", "v1", KindPod), GVK("apps", "v1", KindDeployment),
     GVK("apps", "v1", KindDaemonSet), GVK("apps", "v1", KindStatefulSet),
     GVK("", "v1", KindService), GVK("networking.k8s.io", "v1", KindIngress),
     GVK("batch", "v1", KindJob), GVK("batch", "v1", KindCronJob)}

\* The orders a range over the object's labels can take.
LabelOrders(item) ==
    IF GetLabels(item).found THEN Orderings(DOMAIN GetLabels(item).val.m) ELSE {<<>>}

OrdersFor(items) ==
    {orders \in [1..Len(items) -> UNION {LabelOrders(item) : item \in Items}] :
        \A i \in 1..Len(items) : orders[i] \in LabelOrders(items[i])}

\* One dispatcher call: the arguments, the clock at the call, and the result.
Call(op, items, clock, orders, result) ==
    [op |-> op, items |-> items, clock |-> clock, orders |-> orders] @@ result

Invoke(op, items, gvk, clock, orders) ==
    IF op = "mapToK8sResourceContent"
    THEN Call(op, items, clock, orders,
              mapToK8sResourceContent(resourceMappers, items[1], gvk, clock, orders[1]))
    ELSE Call(op, items, clock, orders,
              mapToK8sResourceListContent(resourceMappers, items, gvk, clock, orders))

\* A behaviour follows one projection and its repetition: the dispatcher
\* keeps no state from one call to the next.
\* getK8sResourceHandler projecting the object it fetched.
ProjectOne ==
    \E gvk \in ProjectGVKs, item \in Items :
        \E orders \in OrdersFor(<<item>>) :
            /\ projCall.op = "none"
            /\ projCall' = Invoke("mapToK8sResourceContent", <<item>>, gvk, now, orders)
            /\ projRepeat' = NoCall
            /\ UNCHANGED <<resourceMappers, regVars, normVars, resolveVars, now, serverVars>>

\* listK8sResourcesHandler projecting the list it fetched.
ProjectList ==
    \E gvk \in ProjectGVKs, items \in ItemLists :
        \E orders \in OrdersFor(items) :
            /\ projCall.op = "none"
            /\ projCall' = Invoke("mapToK8sResourceListContent", items, gvk, now, orders)
            /\ projRepeat' = NoCall
            /\ UNCHANGED <<resourceMappers, regVars, normVars, resolveVars, now, serverVars>>

\* The same projection requested once more for the same objects.
ProjectAgain ==
    /\ projCall.op # "none"
    /\ projRepeat.op = "none"
    /\ \E orders \in OrdersFor(projCall.items) :
          projRepeat' = Invoke(projCall.op, projCall.items, projCall.gvk, now, orders)
    /\ UNCHANGED <<resourceMappers, regVars, normVars, resolveVars, now, projCall, serverVars>>

\* A second of wall-clock time passes.
Tick ==
    /\ now < MaxClock
    /\ now' = now + 1
    /\ UNCHANGED <<resourceMappers, regVars, normVars, resolveVars, projCall, projRepeat, serverVars>>

InitProject ==
    /\ resourceMappers = InitializedRegistry
    /\ regHistory = <<>>
    /\ lastCall = NoCall
    /\ NormIdle
    /\ ProjIdle
    /\ ResolveIdle
    /\ StartupIdle
    /\ ParseIdle
    /\ ToolIdle
    /\ CallIdle
    /\ DurIdle
    /\ MainIdle

NextProject == ProjectOne \/ ProjectList \/ ProjectAgain \/ Tick

SpecProject == InitProject /\ [][NextProject]_vars

-----------------------------------------------------------------------------
(* Claims about the dispatcher and the mappers                             *)

\* No init function registered a mapper for this identity.
Unregistered(gvk) ==
    \A n \in DOMAIN InitRegistrations : ~SameIdentity(gvk, InitRegistrations[n].gvk)

\* The string the object itself carries at metadata.<key>, "" when it
\* carries none.
OwnMetadata(item, key) ==
    IF /\ item.t = "map"
       /\ "metadata" \in DOMAIN item.m
       /\ item.m["metadata"].t = "map"
       /\ key \in DOMAIN item.m["metadata"].m
       /\ item.m["metadata"].m[key].t = "string"
    THEN item.m["metadata"].m[key].s
    ELSE ""

\* The JSON object {name, namespace} of an item, without the namespace
\* member when the namespace is empty.
NameAndNamespace(item) ==
    IF OwnMetadata(item, "namespace") = ""
    THEN [key \in {"name"} |-> OwnMetadata(item, "name")]
    ELSE [key \in {"name", "namespace"} |-> OwnMetadata(item, key)]

FallbackProjects(call) ==
    call.op # "none" /\ Unregistered(call.gvk) =>
        /\ ~call.found
        /\ ~call.panicked
        /\ Len(call.out) = Len(call.items)
        /\ \A i \in 1..Len(call.items) :
              toJSON(call.out[i]) = NameAndNamespace(call.items[i])

\* C5: for an identity with no registered mapper, the single-item and the
\* list projection never fail and give, for every input object, exactly the
\* JSON object {name, namespace} of that object's own metadata, the
\* namespace member left out when the namespace is empty.
C5_FallbackProjection == FallbackProjects(projCall) /\ FallbackProjects(projRepeat)

\* A list projection under an unregistered identity, of one object with a
\* namespace and one without.
C5_Witness ==
    /\ projCall.op = "mapToK8sResourceListContent"
    /\ Unregistered(projCall.gvk)
    /\ projCall.items = <<ItemNamespaced, ItemClusterScoped>>
    /\ DOMAIN toJSON(projCall.out[2]) = {"name"}

\* C6: a list projection does exactly one registry lookup whatever the
\* length of the list, and returns a sequence as long as the input whose
\* i-th element is the projection of the i-th item by the mapper that
\* lookup gave (the generic fallback on a miss).
C6_ListProjectsEachItemWithOneLookup ==
    projCall.op = "mapToK8sResourceListContent" =>
        /\ projCall.lookups = 1
        /\ Len(projCall.out) = Len(projCall.items)
        /\ \A i \in 1..Len(projCall.items) :
              projCall.out[i] = projectWith(Get(projCall.gvk), projCall.items[i],
                                            projCall.clock, projCall.orders[i])

\* C7: a projection through a registered mapper never panics, whatever the
\* types of the object's fields, and gives one projection per object.
C7_RegisteredMappersTotal ==
    projCall.op # "none" /\ projCall.found =>
        /\ ~projCall.panicked
        /\ Len(projCall.out) = Len(projCall.items)

\* C8: a projection through a registered mapper, made twice for the same
\* objects, gives equal results both times: same field values, same order
\* in every list field.
C8_RegisteredMappersDeterministic ==
    projRepeat.op # "none" /\ projCall.found => projRepeat.out = projCall.out

-----------------------------------------------------------------------------
(* Claims about the per-kind mappers                                       *)

\* The value at a path of object members, JNull where the path leaves the
\* tree.
RECURSIVE FieldAt(_, _)
FieldAt(val, path) ==
    IF path = <<>> THEN val
    ELSE IF val.t = "map" /\ Head(path) \in DOMAIN val.m
        THEN FieldAt(val.m[Head(path)], Tail(path))
    ELSE JNull

\* The call went through the named registered mapper.
ProjectedBy(call, mapper) ==
    call.op # "none" /\ call.found /\ call.mapper = mapper /\ ~call.panicked

\* How many of lastState.terminated.reason and state.terminated.reason of
\* one containerStatuses entry equal "OOMKilled".
OOMReasons(entry) ==
    Cardinality({st \in {"lastState", "state"} :
        FieldAt(entry, <<st, "terminated", "reason">>) = JStr("OOMKilled")})

RECURSIVE SumOOMReasons(_)
SumOOMReasons(entries) ==
    IF entries = <<>> THEN 0
    ELSE OOMReasons(Head(entries)) + SumOOMReasons(Tail(entries))

PodOOMKills(call) ==
    ProjectedBy(call, "mapPodResource") =>
        \A i \in 1..Len(call.items) :
            /\ call.out[i].content.OOMKills =
                  SumOOMReasons(FieldAt(call.items[i], <<"status", "containerStatuses">>).l)
            /\ call.items[i] \in {ItemPodOOMTwice, ItemPodTwoOOM} =>
                  call.out[i].content.OOMKills = 2

\* C14: the Pod mapper's OOMKills is the number, summed over the entries of
\* status.containerStatuses, of the entry's lastState.terminated.reason and
\* state.terminated.reason values equal to "OOMKilled"; one container with
\* both gives 2, and two containers OOM-killed once each give 2.
C14_OOMKillsCountsBothStates == PodOOMKills(projCall) /\ PodOOMKills(projRepeat)

\* The Pod mapper has projected the pod whose single container was
\* OOM-killed in both states, and reported two kills.
C14_Witness ==
    /\ ProjectedBy(projCall, "mapPodResource")
    /\ projCall.items = <<ItemPodOOMTwice>>
    /\ Len(FieldAt(ItemPodOOMTwice, <<"status", "containerStatuses">>).l) = 1
    /\ projCall.out[1].content.OOMKills = 2
    /\ toJSON(projCall.out[1])["oomKills"] = 2

\* The object carries metadata.name, a string, and nothing else.
NameOnly(item) ==
    /\ item.t = "map" /\ DOMAIN item.m = {"metadata"}
    /\ item.m["metadata"].t = "map" /\ DOMAIN item.m["metadata"].m = {"name"}
    /\ item.m["metadata"].m["name"].t = "string"

NameOnlyProjectsName(call) ==
    call.op # "none" /\ ~call.panicked =>
        \A i \in 1..Len(call.items) :
            NameOnly(call.items[i]) =>
                toJSON(call.out[i]) = [key \in {"name"} |-> OwnMetadata(call.items[i], "name")]

\* C15: for every per-kind mapper and the generic fallback, an object that
\* carries only metadata.name is projected to a JSON object whose only
\* member is name: every other field, its source being absent, is omitted.
C15_AbsentSourcesOmitted == NameOnlyProjectsName(projCall) /\ NameOnlyProjectsName(projRepeat)

\* The object exposes note and eventTime, and neither message nor
\* firstTimestamp.
BetaShaped(item) ==
    /\ item.t = "map"
    /\ {"note", "eventTime"} \subseteq DOMAIN item.m
    /\ item.m["note"].t = "string" /\ item.m["eventTime"].t = "string"
    /\ DOMAIN item.m \cap {"message", "firstTimestamp"} = {}

Rename(m, from, to) ==
    [k \in (DOMAIN m \ {from}) \cup {to} |-> IF k = to THEN m[from] ELSE m[k]]

\* The core/v1 event with that note as message and that eventTime as
\* firstTimestamp.
CoreTwin(item) ==
    JMap(Rename(Rename(item.m, "note", "message"), "eventTime", "firstTimestamp"))

BetaMapsAsCore(call) ==
    ProjectedBy(call, "mapEventResource") =>
        \A i \in 1..Len(call.items) :
            BetaShaped(call.items[i]) =>
                LET twin == mapEventResource(CoreTwin(call.items[i]), call.clock)
                IN  /\ ~twin.panicked
                    /\ twin.content.Message = call.items[i].m["note"].s
                    /\ call.out[i].content.Message = twin.content.Message
                    /\ call.out[i].content.Age = twin.content.Age

\* C16: the Event mapper gives an events.k8s.io object exposing note and
\* eventTime (and no message or firstTimestamp) the Message and the Age it
\* gives, at the same instant, the core/v1 event whose message is that
\* note and whose firstTimestamp is that eventTime.
C16_BetaEventMapsAsCoreTwin == BetaMapsAsCore(projCall) /\ BetaMapsAsCore(projRepeat)

\* The Event mapper has projected the events.k8s.io object an hour after
\* its eventTime: the message is the note and the age is one hour.
C16_Witness ==
    /\ ProjectedBy(projCall, "mapEventResource")
    /\ projCall.items = <<ItemEventBeta>>
    /\ BetaShaped(ItemEventBeta)
    /\ projCall.clock = 1
    /\ projCall.out[1].content.Message = "image pulled"
    /\ projCall.out[1].content.Age = "1h"
    /\ mapEventResource(CoreTwin(ItemEventBeta), 1).content.Age = "1h"

\* The non-empty hosts the rules of an Ingress carry.
RuleHostSet(item) ==
    LET rules == FieldAt(item, <<"spec", "rules">>).l
    IN  {FieldAt(rules[j], <<"host">>).s : j \in 1..Len(rules)} \ {""}

HostsOnceEach(call) ==
    ProjectedBy(call, "mapIngressResource") =>
        \A i \in 1..Len(call.items) :
            LET Hosts == call.out[i].content.Hosts
            IN  /\ {Hosts[j] : j \in 1..Len(Hosts)} = RuleHostSet(call.items[i])
                /\ \A j, k \in 1..Len(Hosts) : Hosts[j] = Hosts[k] => j = k

\* C17: the Ingress mapper's Hosts holds every non-empty host of
\* spec.rules, and each of them exactly once, also when several rules
\* repeat a host.
C17_HostsListedOnce == HostsOnceEach(projCall) /\ HostsOnceEach(projRepeat)

\* The label keys of a node that carry the role prefix.
RoleLabels(item) ==
    LET labels == FieldAt(item, <<"metadata", "labels">>)
    IN  {key \in DOMAIN labels.m : HasRolePrefix(key)}

RolesFromLabels(call) ==
    ProjectedBy(call, "mapNodeResource") =>
        \A i \in 1..Len(call.items) :
            LET Roles == call.out[i].content.Roles
            IN  IF RoleLabels(call.items[i]) = {}
                THEN Roles = <<"<none>">>
                ELSE /\ Len(Roles) = Cardinality(RoleLabels(call.items[i]))
                     /\ {Roles[j] : j \in 1..Len(Roles)} =
                            {TrimRolePrefix(key) : key \in RoleLabels(call.items[i])}

\* C18: the Node mapper's Roles has one entry per label key with the prefix
\* "node-role.kubernetes.io/", the part after the prefix, and is exactly
\* ["<none>"] for every node without such a label, a node without any
\* labels included.
C18_RolesFromRoleLabels == RolesFromLabels(projCall) /\ RolesFromLabels(projRepeat)

-----------------------------------------------------------------------------
(* The GVK -> GVR resolver, gvr.go:26-40 and client.go:146-177              *)

MaxCalls == 2

\* The API resources the clusters serve; discovery returns them.
ClusterResources ==
    {[Group |-> "", Version |-> "v1", Kind |-> KindPod, Resource |-> "pods"],
     [Group |-> "", Version |-> "v1", Kind |-> KindConfigMap, Resource |-> "configmaps"],
     [Group |-> "apps", Version |-> "v1", Kind |-> KindDeployment,
      Resource |-> "deployments"]}

NoGVR == [Group |-> "", Version |-> "", Resource |-> ""]
NoRESTMapper == [serial |-> 0, resources |-> {}]

\* What the calls into client-go do in one run of getClientsForContext:
\* all succeed, or the named one fails with the given error.
Succeeds == [failing |-> "none", err |-> ""]
Fails(step, err) == [failing |-> step, err |-> err]

ErrNoSuchContext == "context \"prod\" does not exist"
ErrInvalidConfig == "invalid configuration: no configuration has been provided"
ErrUnreachable == "dial tcp: connection refused"
ErrNoMatch == "no matches for kind"
ContextGuidance ==
    ". To discover available contexts or resolve cluster aliases, use the kubeconfig://contexts MCP resource"

Outcomes ==
    {Succeeds,
     Fails("ClientConfig", ErrNoSuchContext),
     Fails("ClientConfig", ErrInvalidConfig),
     Fails("dynamic.NewForConfig", ErrInvalidConfig),
     Fails("discovery.NewDiscoveryClientForConfig", ErrInvalidConfig),
     Fails("restmapper.GetAPIGroupResources", ErrUnreachable)}

\* Further texts a failing ClientConfig call can carry.
ErrContextNotFound == "context was not found for specified context: prod"
ErrNoSuchContextName == "no such context: prod"
ErrFileNotFound == "kubeconfig file not found"
ErrContextDeadline == "context deadline exceeded"

\* Which of the four phrases enhanceContextError looks for occur in each
\* error text of the model.
Phrases(errMsg) ==
    CASE errMsg = ErrNoSuchContext -> {"context", "does not exist"}
      [] errMsg = ErrContextNotFound -> {"context", "not found"}
      [] errMsg = ErrNoSuchContextName -> {"context", "no such context"}
      [] errMsg = ErrFileNotFound -> {"not found"}
      [] errMsg = ErrContextDeadline -> {"context"}
      [] OTHER -> {}

\* strings.Contains(errMsg, phrase)
stringsContains(errMsg, phrase) == phrase \in Phrases(errMsg)

\* func enhanceContextError(err error) error
enhanceContextError(err) ==
    IF /\ stringsContains(err, "context")
       /\ \/ stringsContains(err, "does not exist")
          \/ stringsContains(err, "not found")
          \/ stringsContains(err, "no such context")
    THEN err \o ContextGuidance
    ELSE err

\* func getClientsForContext(k8sContext) (*k8sClients, error).  serial
\* numbers the discovery run that restmapper.GetAPIGroupResources makes.
getClientsForContext(k8sContext, outcome, serial) ==
    IF outcome.failing = "ClientConfig"
        THEN [err |-> enhanceContextError(outcome.err), discoveryRuns |-> 0,
              restMapper |-> NoRESTMapper]
    ELSE IF outcome.failing \in {"dynamic.NewForConfig",
                                 "discovery.NewDiscoveryClientForConfig"}
        THEN [err |-> outcome.err, discoveryRuns |-> 0, restMapper |-> NoRESTMapper]
    ELSE IF outcome.failing = "restmapper.GetAPIGroupResources"
        THEN [err |-> outcome.err, discoveryRuns |-> 1, restMapper |-> NoRESTMapper]
    ELSE [err |-> "", discoveryRuns |-> 1,
          restMapper |-> [serial |-> serial, resources |-> ClusterResources]]

\* restMapper.RESTMapping(gk, version) of a mapper made by
\* restmapper.NewDiscoveryRESTMapper, which knows every discovered kind as
\* served and in lower case.
RESTMapping(restMapper, group, kind, version) ==
    LET matches == {r \in restMapper.resources :
                        /\ r.Group = group
                        /\ r.Version = version
                        /\ kind \in {r.Kind, stringsToLower(r.Kind)}}
    IN  IF matches = {} THEN [err |-> ErrNoMatch, Resource |-> NoGVR]
        ELSE [err |-> "",
              Resource |-> LET r == CHOOSE m \in matches : TRUE
                           IN  [Group |-> r.Group, Version |-> r.Version,
                                Resource |-> r.Resource]]

\* One finished GVKToGVR call.
Resolution(context, gvk, outcome, clients, requests, err, gvr) ==
    [context |-> context, gvk |-> gvk, outcome |-> outcome,
     discoveryRuns |-> clients.discoveryRuns,
     restMapper |-> clients.restMapper.serial, requests |-> requests,
     err |-> err, gvr |-> gvr]

\* A variant of gvkToGVR that normalises the kind before asking the REST
\* mapper.
gvkToGVRNormalizing(context, gvk, outcome, serial) ==
    LET clients == getClientsForContext(context, outcome, serial)
        asked == normalizeGVKForLookup(gvk)
        mapping == RESTMapping(clients.restMapper, asked.Group, asked.Kind, asked.Version)
    IN  IF clients.err # ""
            THEN Resolution(context, gvk, outcome, clients, <<>>,
                            "failed to create k8s clients: " \o clients.err, NoGVR)
        ELSE IF mapping.err # ""
            THEN Resolution(context, gvk, outcome, clients, <<asked>>,
                            "failed to map kind to resource: " \o mapping.err, NoGVR)
        ELSE Resolution(context, gvk, outcome, clients, <<asked>>, "", mapping.Resource)

\* The body of GVKToGVR: the clients for the context, then one RESTMapping
\* request for gvk.GroupKind() and gvk.Version.
gvkToGVR(context, gvk, outcome, serial) ==
    LET clients == getClientsForContext(context, outcome, serial)
        asked == gvk
        mapping == RESTMapping(clients.restMapper, asked.Group, asked.Kind, asked.Version)
    IN  IF clients.err # ""
            THEN Resolution(context, gvk, outcome, clients, <<>>,
                            "failed to create k8s clients: " \o clients.err, NoGVR)
        ELSE IF mapping.err # ""
            THEN Resolution(context, gvk, outcome, clients, <<asked>>,
                            "failed to map kind to resource: " \o mapping.err, NoGVR)
        ELSE Resolution(context, gvk, outcome, clients, <<asked>>, "", mapping.Resource)

\* A variant of GVKToGVR that keeps the REST mapper built for a context and
\* uses it again in later calls for that context.
GVKToGVRCached(context, gvk, outcome) ==
    /\ Len(resolved) < MaxCalls
    /\ LET earlier == {i \in DOMAIN resolved :
                          resolved[i].context = context /\ resolved[i].restMapper # 0}
           kept == [err |-> "", discoveryRuns |-> 0,
                    restMapper |-> [serial |-> resolved[CHOOSE i \in earlier : TRUE].restMapper,
                                    resources |-> ClusterResources]]
           mapping == RESTMapping(kept.restMapper, gvk.Group, gvk.Kind, gvk.Version)
           r == IF earlier = {} THEN gvkToGVR(context, gvk, outcome, discoveries + 1)
                ELSE Resolution(context, gvk, outcome, kept, <<gvk>>,
                                IF mapping.err # ""
                                THEN "failed to map kind to resource: " \o mapping.err
                                ELSE "",
                                mapping.Resource)
       IN  /\ resolved' = Append(resolved, r)
           /\ discoveries' = discoveries + r.discoveryRuns
           /\ restMappings' = restMappings \o r.requests
    /\ UNCHANGED <<resourceMappers, regVars, normVars, projVars, serverVars>>

\* func GVKToGVR(context, gvk) (schema.GroupVersionResource, error), called
\* while the calls into client-go have the given outcome.
GVKToGVR(context, gvk, outcome) ==
    /\ Len(resolved) < MaxCalls
    /\ LET r == gvkToGVR(context, gvk, outcome, discoveries + 1)
       IN  /\ resolved' = Append(resolved, r)
           /\ discoveries' = discoveries + r.discoveryRuns
           /\ restMappings' = restMappings \o r.requests
    /\ UNCHANGED <<resourceMappers, regVars, normVars, projVars, serverVars>>

ResolveContexts == {"", "prod"}

\* Kinds as callers type them: "pod", "Pod", "POD", "ConfigMap".
ResolveGVKs ==
    {GVK("", "v1", kind) : kind \in {KindPodLower, KindPod, KindPodUpper, KindConfigMap}}

Resolve ==
    \E context \in ResolveContexts, gvk \in ResolveGVKs, outcome \in Outcomes :
        GVKToGVR(context, gvk, outcome)

InitResolve ==
    /\ resourceMappers = InitializedRegistry
    /\ regHistory = <<>>
    /\ lastCall = NoCall
    /\ NormIdle
    /\ ProjIdle
    /\ ResolveIdle
    /\ StartupIdle
    /\ ParseIdle
    /\ ToolIdle
    /\ CallIdle
    /\ DurIdle
    /\ MainIdle

NextResolve == Resolve

SpecResolve == InitResolve /\ [][NextResolve]_vars

-----------------------------------------------------------------------------
(* Claims about the resolver                                               *)

ReachedDiscovery ==
    {i \in DOMAIN resolved :
        resolved[i].outcome.failing \in {"none", "restmapper.GetAPIGroupResources"}}
ReachedMapping == {i \in DOMAIN resolved : resolved[i].outcome = Succeeds}

-----------------------------------------------------------------------------
(* The client-creation functions, client.go:40-177                         *)

ClientContexts == {"", "prod", "staging"}

\* The errors kubeConfig.ClientConfig() fails with.
ClientConfigErrors ==
    {ErrNoSuchContext, ErrContextNotFound, ErrNoSuchContextName, ErrInvalidConfig,
     ErrFileNotFound, ErrContextDeadline}

\* What the calls into client-go do in one run of a function that builds
\* its client with the named constructor.
ClientOutcomes(constructor) ==
    {Succeeds, Fails(constructor, ErrInvalidConfig), Fails(constructor, ErrContextNotFound)}
        \cup {Fails("ClientConfig", err) : err \in ClientConfigErrors}

BundleOutcomes ==
    ClientOutcomes("dynamic.NewForConfig")
        \cup {Fails("discovery.NewDiscoveryClientForConfig", ErrInvalidConfig),
              Fails("restmapper.GetAPIGroupResources", ErrUnreachable)}

ClientCall(op, k8sContext, outcome, err) ==
    [op |-> op, context |-> k8sContext, outcome |-> outcome, err |-> err]

\* func GetDynamicClientForContext(k8sContext) (dynamic.Interface, error)
GetDynamicClientForContext ==
    \E k8sContext \in ClientContexts, outcome \in BundleOutcomes :
        /\ clientCall' = ClientCall("GetDynamicClientForContext", k8sContext, outcome,
                                    getClientsForContext(k8sContext, outcome, 1).err)
        /\ UNCHANGED <<resourceMappers, regVars, normVars, projVars, resolveVars>>
        /\ UNCHANGED <<startupVars, parseVars, listCall, moreVars>>

\* func GetMetricsClientForContext(k8sContext) (metrics.Interface, error)
GetMetricsClientForContext ==
    \E k8sContext \in ClientContexts, outcome \in ClientOutcomes("metrics.NewForConfig") :
        /\ clientCall' = ClientCall("GetMetricsClientForContext", k8sContext, outcome,
                                    outcome.err)
        /\ UNCHANGED <<resourceMappers, regVars, normVars, projVars, resolveVars>>
        /\ UNCHANGED <<startupVars, parseVars, listCall, moreVars>>

\* func GetClientsetForContext(k8sContext) (kubernetes.Interface, error)
GetClientsetForContext ==
    \E k8sContext \in ClientContexts, outcome \in ClientOutcomes("kubernetes.NewForConfig") :
        /\ clientCall' = ClientCall("GetClientsetForContext", k8sContext, outcome,
                                    outcome.err)
        /\ UNCHANGED <<resourceMappers, regVars, normVars, projVars, resolveVars>>
        /\ UNCHANGED <<startupVars, parseVars, listCall, moreVars>>

\* func GetDiscoveryClientForContext(k8sContext) (discovery.DiscoveryInterface, error)
GetDiscoveryClientForContext ==
    \E k8sContext \in ClientContexts,
       outcome \in ClientOutcomes("discovery.NewDiscoveryClientForConfig") :
        /\ clientCall' = ClientCall("GetDiscoveryClientForContext", k8sContext, outcome,
                                    IF outcome.failing = "ClientConfig"
                                    THEN enhanceContextError(outcome.err)
                                    ELSE outcome.err)
        /\ UNCHANGED <<resourceMappers, regVars, normVars, projVars, resolveVars>>
        /\ UNCHANGED <<startupVars, parseVars, listCall, moreVars>>

\* getClientsForContext as the resolver calls it.
GetClientsForContext ==
    \E k8sContext \in ClientContexts, outcome \in BundleOutcomes :
        /\ clientCall' = ClientCall("getClientsForContext", k8sContext, outcome,
                                    getClientsForContext(k8sContext, outcome, 1).err)
        /\ UNCHANGED <<resourceMappers, regVars, normVars, projVars, resolveVars>>
        /\ UNCHANGED <<startupVars, parseVars, listCall, moreVars>>

InitClients ==
    /\ resourceMappers = InitializedRegistry
    /\ regHistory = <<>>
    /\ lastCall = NoCall
    /\ NormIdle
    /\ ProjIdle
    /\ ResolveIdle
    /\ StartupIdle
    /\ ParseIdle
    /\ ToolIdle
    /\ CallIdle
    /\ DurIdle
    /\ MainIdle

NextClients ==
    \/ GetDynamicClientForContext
    \/ GetMetricsClientForContext
    \/ GetClientsetForContext
    \/ GetDiscoveryClientForContext
    \/ GetClientsForContext

SpecClients == InitClients /\ [][NextClients]_vars

\* The failure is a context-resolution failure in the sense of the
\* guidance: ClientConfig failed with a text that holds "context" and one
\* of "does not exist", "not found", "no such context".
ContextResolutionFailure(outcome) ==
    /\ outcome.failing = "ClientConfig"
    /\ stringsContains(outcome.err, "context")
    /\ \E phrase \in {"does not exist", "not found", "no such context"} :
          stringsContains(outcome.err, phrase)

\* C19: every client-creation function returns a context-resolution failure
\* with the kubeconfig://contexts guidance appended, and every other error
\* as it came.
C19_ContextErrorsEnhancedEverywhere ==
    clientCall.op # "none" =>
        IF ContextResolutionFailure(clientCall.outcome)
        THEN clientCall.err = clientCall.outcome.err \o ContextGuidance
        ELSE clientCall.err = clientCall.outcome.err

-----------------------------------------------------------------------------
(* The list_k8s_resources tool, list_k8s_resources.go:78-188               *)

MaxLimit == 2
DefaultLimit == 100

\* A tools/call request: which of the arguments context, kind, namespace
\* and limit it carries, and their values.  group and version are left to
\* their defaults, fieldSelector and continue are left out.
Argument(present, value) == [present |-> present, value |-> value]

ListRequests ==
    [context : {Argument(FALSE, ""), Argument(TRUE, "prod")},
     kind : {Argument(FALSE, <<>>), Argument(TRUE, KindPod), Argument(TRUE, KindConfigMap)},
     namespace : {Argument(FALSE, ""), Argument(TRUE, "default")},
     limit : {Argument(FALSE, 0)} \cup {Argument(TRUE, n) : n \in -1..MaxLimit}]

\* request.RequireString(key): an error when the argument is missing.
RequireString(request, key) ==
    IF request[key].present THEN [err |-> "", value |-> request[key].value]
    ELSE [err |-> "required argument \"" \o key \o "\" not found", value |-> ""]

\* request.GetString(key, default) and request.GetFloat(key, default)
GetArgument(request, key, default) ==
    IF request[key].present THEN request[key].value ELSE default

\* func extractListK8sResourcesParams(request) (*listK8sResourcesParams, error)
extractListK8sResourcesParams(request) ==
    LET context == RequireString(request, "context")
        limit == GetArgument(request, "limit", DefaultLimit)
        none == [err |-> "", Context |-> "", Namespace |-> "", Group |-> "",
                 Version |-> "", Kind |-> <<>>, Limit |-> 0]
    IN  IF context.err # "" THEN [none EXCEPT !.err = context.err]
        ELSE IF ~request.kind.present
            THEN [none EXCEPT !.err = "required argument \"kind\" not found"]
        ELSE IF limit < 0
            THEN [none EXCEPT !.err = "limit must be positive, got " \o ToString(limit)]
        ELSE [err |-> "", Context |-> context.value,
              Namespace |-> GetArgument(request, "namespace", ""),
              Group |-> "", Version |-> "v1", Kind |-> request.kind.value,
              Limit |-> limit]

ItemPodSystem == JMap("metadata" :> Meta("dns", "kube-system"))

\* The objects the cluster holds under each resource.
ClusterObjects(resource) ==
    IF resource = "pods" THEN <<ItemPodOOMTwice, ItemPodSystem, ItemPodNoOOM>>
    ELSE <<ItemNamespaced>>

RECURSIVE InNamespace(_, _)
InNamespace(objects, namespace) ==
    IF objects = <<>> THEN <<>>
    ELSE (IF namespace = "" \/ GetNamespace(Head(objects)) = namespace
          THEN <<Head(objects)>> ELSE <<>>) \o InNamespace(Tail(objects), namespace)

\* dynamicClient.Resource(gvr)[.Namespace(ns)].List(ctx, listOptions): the
\* API server returns at most Limit objects, all of them when Limit is 0,
\* and says how many remain.
List(gvr, namespace, limit) ==
    LET all == InNamespace(ClusterObjects(gvr.Resource), namespace)
        n == IF limit = 0 \/ limit > Len(all) THEN Len(all) ELSE limit
    IN  [items |-> SubSeq(all, 1, n), remainingItemCount |-> Len(all) - n]

\* One finished handler run: the request, the tool result, and what the
\* handler did on the way (resolutions made, clients created, the List
\* call and its limit, the projection).  Every return statement of the
\* handler returns a nil error next to the result.
ListCall(request, isError, text, items, remaining, resolutions, clients, listed,
         projected, limit) ==
    [op |-> "list_k8s_resources", request |-> request, isError |-> isError,
     text |-> text, items |-> items, remaining |-> remaining,
     resolutions |-> resolutions, clients |-> clients, listed |-> listed,
     projected |-> projected, limit |-> limit, goErr |-> ""]

\* What one handler run leaves: the resolutions it made, the discovery
\* runs it caused and the finished call.
HandlerRun(resolutions, discoveryRuns, call) ==
    [resolved |-> resolutions, discoveryRuns |-> discoveryRuns, call |-> call]

\* Lines 129-158: the projection of the listed objects and the response.
listResponse(request, params, gvk, r, dynamic, list, clock) ==
    LET content == mapToK8sResourceListContent(resourceMappers, list.items, gvk, clock,
                                               [i \in 1..Len(list.items) |-> <<>>])
    IN  HandlerRun(<<r>>, r.discoveryRuns + dynamic.discoveryRuns,
            ListCall(request, FALSE, "",
                     [i \in 1..Len(content.out) |-> toJSON(content.out[i])],
                     list.remainingItemCount, 1, 1, TRUE, TRUE, params.Limit))

\* Lines 98-127: the dynamic client, then the List call with
\* listOptions.Limit = params.Limit.
listWithClient(request, params, gvk, r, dynamic, listFails, clock) ==
    IF dynamic.err # ""
        THEN HandlerRun(<<r>>, r.discoveryRuns + dynamic.discoveryRuns,
                 ListCall(request, TRUE, "Failed to create dynamic client: " \o dynamic.err,
                          <<>>, 0, 1, 1, FALSE, FALSE, 0))
    ELSE IF listFails
        THEN HandlerRun(<<r>>, r.discoveryRuns + dynamic.discoveryRuns,
                 ListCall(request, TRUE, "Failed to list resources: " \o ErrUnreachable,
                          <<>>, 0, 1, 1, TRUE, FALSE, params.Limit))
    ELSE listResponse(request, params, gvk, r, dynamic,
                      List(r.gvr, params.Namespace, params.Limit), clock)

\* Lines 92-96: the result of k8s.GVKToGVR.
listResolved(request, params, gvk, r, clientOutcome, listFails, serial, clock) ==
    IF r.err # ""
        THEN HandlerRun(<<r>>, r.discoveryRuns,
                 ListCall(request, TRUE, r.err, <<>>, 0, 1, 0, FALSE, FALSE, 0))
    ELSE listWithClient(request, params, gvk, r,
                        getClientsForContext(params.Context, clientOutcome, serial + 1),
                        listFails, clock)

\* Lines 80-93: the parameters, the GVK and its resolution.
listWithParams(request, params, outcome, clientOutcome, listFails, serial, clock) ==
    IF params.err # ""
        THEN HandlerRun(<<>>, 0,
                 ListCall(request, TRUE, params.err, <<>>, 0, 0, 0, FALSE, FALSE, 0))
    ELSE listResolved(request, params, GVK(params.Group, params.Version, params.Kind),
                      gvkToGVR(params.Context,
                               GVK(params.Group, params.Version, params.Kind),
                               outcome, serial),
                      clientOutcome, listFails, serial, clock)

\* What listK8sResourcesHandler returns and does for a request, while the
\* client-go calls of the resolution and of the dynamic client have the
\* given outcomes and the List call fails or not.
listK8sResources(request, outcome, clientOutcome, listFails, serial, clock) ==
    listWithParams(request, extractListK8sResourcesParams(request), outcome,
                   clientOutcome, listFails, serial, clock)

\* The state after a handler run.
ListReturns(run) ==
    /\ listCall' = run.call
    /\ resolved' = resolved \o run.resolved
    /\ discoveries' = discoveries + run.discoveryRuns
    /\ restMappings' = restMappings \o
           (IF run.resolved = <<>> THEN <<>> ELSE run.resolved[1].requests)
    /\ UNCHANGED <<resourceMappers, regVars, normVars, projVars>>
    /\ UNCHANGED <<startupVars, parseVars, clientCall, moreVars>>

\* func listK8sResourcesHandler(ctx, request) (*mcp.CallToolResult, error).
\* A behaviour follows one request: the handler keeps nothing from one
\* request to the next.
listK8sResourcesHandler ==
    \E request \in ListRequests, outcome \in Outcomes,
       clientOutcome \in {Succeeds, Fails("ClientConfig", ErrNoSuchContext)},
       listFails \in BOOLEAN :
        /\ listCall.op = "none"
        /\ Len(resolved) < MaxCalls
        /\ ListReturns(listK8sResources(request, outcome, clientOutcome, listFails,
                                        discoveries + 1, now))

InitList ==
    /\ resourceMappers = InitializedRegistry
    /\ regHistory = <<>>
    /\ lastCall = NoCall
    /\ NormIdle
    /\ ProjIdle
    /\ ResolveIdle
    /\ StartupIdle
    /\ ParseIdle
    /\ ToolIdle
    /\ CallIdle
    /\ DurIdle
    /\ MainIdle

NextList == listK8sResourcesHandler

SpecList == InitList /\ [][NextList]_vars

\* C20: a request without limit lists with limit 100, and a request whose
\* limit is zero or negative gets an error result before any resolution or
\* cluster call is made.
C20_LimitPositiveDefault100 ==
    listCall.op # "none" =>
        /\ ~listCall.request.limit.present /\ listCall.listed => listCall.limit = 100
        /\ listCall.request.limit.present /\ listCall.request.limit.value <= 0 =>
              /\ listCall.isError
              /\ listCall.resolutions = 0
              /\ listCall.clients = 0
              /\ ~listCall.listed

-----------------------------------------------------------------------------
(* Process start: package initialisation, main, then concurrent tool calls *)

MaxCallers == 2

\* The init functions of package mapper, each with the positions of its
\* Register calls in InitRegistrations.
InitFunctions ==
    {[kind |-> "CronJob", regs |-> <<1>>], [kind |-> "DaemonSet", regs |-> <<2>>],
     [kind |-> "Deployment", regs |-> <<3>>], [kind |-> "Event", regs |-> <<4, 5>>],
     [kind |-> "Ingress", regs |-> <<6>>], [kind |-> "Job", regs |-> <<7>>],
     [kind |-> "Node", regs |-> <<8>>], [kind |-> "Pod", regs |-> <<9>>],
     [kind |-> "Service", regs |-> <<10>>], [kind |-> "StatefulSet", regs |-> <<11>>],
     [kind |-> "CustomResourceDefinition", regs |-> <<12, 13>>]}

\* The Register calls of one init function, made in order on the map rm.
RECURSIVE registerEach(_, _)
registerEach(rm, regs) ==
    IF regs = <<>> THEN rm
    ELSE registerEach(registerInto(rm, InitRegistrations[Head(regs)].gvk,
                                   InitRegistrations[Head(regs)].mapper),
                      Tail(regs))

\* The Go runtime running one init function of package mapper; it runs them
\* one after the other in a fixed order, all of them before main.
RunInit(f) ==
    /\ phase = "init"
    /\ f \in initsLeft
    /\ f.regs[1] = Len(regHistory) + 1
    /\ resourceMappers' = registerEach(resourceMappers, f.regs)
    /\ regHistory' = regHistory \o [i \in 1..Len(f.regs) |-> InitRegistrations[f.regs[i]]]
    /\ initsLeft' = initsLeft \ {f}
    /\ UNCHANGED <<lastCall, phase, handlers>>
    /\ UNCHANGED <<normVars, projVars, resolveVars, parseVars, toolVars, moreVars>>

\* A variant of Main that starts serving without the init functions having
\* all run.
MainBeforeInits ==
    /\ phase = "init"
    /\ phase' = "serving"
    /\ UNCHANGED <<resourceMappers, regVars, initsLeft, handlers>>
    /\ UNCHANGED <<normVars, projVars, resolveVars, parseVars, toolVars, moreVars>>

\* func main: RegisterMCPTools (mapper.Init, which registers nothing, and
\* the AddTool calls), then ServeStdio in its goroutine.
Main ==
    /\ phase = "init"
    /\ initsLeft = {}
    /\ phase' = "serving"
    /\ UNCHANGED <<resourceMappers, regVars, initsLeft, handlers>>
    /\ UNCHANGED <<normVars, projVars, resolveVars, parseVars, toolVars, moreVars>>

Callers == 1..MaxCallers
IdleHandler == [pc |-> "idle"]

\* The tools whose handlers project content, and identities they are called
\* with: two with a registered mapper, one without.
ProjectingTools == {"list_k8s_resources", "get_k8s_resource"}
HandlerGVKs ==
    {GVK("", "v1", KindPodLower), GVK("", "v1", KindConfigMap), GVK("", "v1", KindEvent)}

\* The server dispatching a tools/call request to its handler, which runs
\* up to the point where it projects what it fetched.
HandlerStart(c, tool, gvk) ==
    /\ phase = "serving"
    /\ handlers[c].pc = "idle"
    /\ handlers' = [handlers EXCEPT ![c] = [pc |-> "project", tool |-> tool, gvk |-> gvk]]
    /\ UNCHANGED <<resourceMappers, regVars, phase, initsLeft>>
    /\ UNCHANGED <<normVars, projVars, resolveVars, parseVars, toolVars, moreVars>>

\* A variant of HandlerProject that, on a miss, registers the generic
\* fallback under the identity it looked up.
HandlerProjectRegistering(c) ==
    /\ handlers[c].pc = "project"
    /\ handlers' = [handlers EXCEPT ![c] =
                        [pc |-> "done", tool |-> handlers[c].tool, gvk |-> handlers[c].gvk,
                         found |-> Get(handlers[c].gvk).found]]
    /\ resourceMappers' = IF Get(handlers[c].gvk).found THEN resourceMappers
                          ELSE registerInto(resourceMappers, handlers[c].gvk,
                                            "MapGenericK8sResource")
    /\ UNCHANGED <<regVars, phase, initsLeft>>
    /\ UNCHANGED <<normVars, projVars, resolveVars, parseVars, toolVars, moreVars>>

\* The handler's mapToK8sResourceContent / mapToK8sResourceListContent call:
\* mapper.Get reads the registry, the mappers read only their argument.
HandlerProject(c) ==
    /\ handlers[c].pc = "project"
    /\ handlers' = [handlers EXCEPT ![c] =
                        [pc |-> "done", tool |-> handlers[c].tool, gvk |-> handlers[c].gvk,
                         found |-> Get(handlers[c].gvk).found]]
    /\ UNCHANGED <<resourceMappers, regVars, phase, initsLeft>>
    /\ UNCHANGED <<normVars, projVars, resolveVars, parseVars, toolVars, moreVars>>

\* The handler returning its result.
HandlerReturn(c) ==
    /\ handlers[c].pc = "done"
    /\ handlers' = [handlers EXCEPT ![c] = IdleHandler]
    /\ UNCHANGED <<resourceMappers, regVars, phase, initsLeft>>
    /\ UNCHANGED <<normVars, projVars, resolveVars, parseVars, toolVars, moreVars>>

InitStartup ==
    /\ resourceMappers = <<>>
    /\ regHistory = <<>>
    /\ lastCall = NoCall
    /\ phase = "init"
    /\ initsLeft = InitFunctions
    /\ handlers = [c \in Callers |-> IdleHandler]
    /\ NormIdle
    /\ ProjIdle
    /\ ResolveIdle
    /\ ParseIdle
    /\ ToolIdle
    /\ CallIdle
    /\ DurIdle
    /\ MainIdle

NextStartup ==
    \/ \E f \in InitFunctions : RunInit(f)
    \/ Main
    \/ \E c \in Callers, tool \in ProjectingTools, gvk \in HandlerGVKs :
            HandlerStart(c, tool, gvk)
    \/ \E c \in Callers : HandlerProject(c)
    \/ \E c \in Callers : HandlerReturn(c)

SpecStartup == InitStartup /\ [][NextStartup]_vars

\* The identities the server supports.
SupportedIdentities ==
    {GVK("", "v1", KindPod), GVK("apps", "v1", KindDeployment),
     GVK("apps", "v1", KindDaemonSet), GVK("apps", "v1", KindStatefulSet),
     GVK("", "v1", KindService), GVK("networking.k8s.io", "v1", KindIngress),
     GVK("batch", "v1", KindJob), GVK("batch", "v1", KindCronJob),
     GVK("", "v1", KindNode), GVK("", "v1", KindEvent),
     GVK("events.k8s.io", "v1beta1", KindEvent),
     GVK("apiextensions.k8s.io", "v1", KindCustomResourceDefinition),
     GVK("apiextensions.k8s.io", "v1beta1", KindCustomResourceDefinition)}

C12_RegistryFixedWhileServing ==
    /\ (\E c \in Callers : handlers[c].pc # "idle") =>
            phase = "serving" /\ initsLeft = {}
    /\ phase = "serving" =>
            /\ initsLeft = {}
            /\ resourceMappers = InitializedRegistry
            /\ Len(regHistory) = Len(InitRegistrations)

\* Two tool calls in flight at once, one past its lookup (a miss) and one
\* before it.
C12_Witness ==
    /\ phase = "serving"
    /\ \E c, d \in Callers :
          /\ handlers[c].pc = "done" /\ ~handlers[c].found
          /\ handlers[d].pc = "project"

-----------------------------------------------------------------------------
(* Runs of parseMemoryToMiB                                                *)

\* Characters the memory strings are built from.
MemoryChars == {"1", "5", ".", "G", "i", "k", " ", "x"}

\* The strings of the unit test and a few more quantities.
MemoryLiterals ==
    {<<"1", "2", "8", "M", "i">>,
     <<"1", "G", "i">>,
     <<"2", "G", "i">>,
     <<"5", "1", "2", "M", "i">>,
     <<"1", "0", "2", "4", "M", "i">>,
     <<"5", "0", "0", "0", "0", "0", "0", "0", "0">>,
     <<"1", "0", "0", "0", "M", "i">>,
     <<"1", ".", "5", "G", "i">>,
     <<"i", "n", "v", "a", "l", "i", "d">>,
     <<"1", "2", "3">>,
     <<"1", "T", "i">>,
     <<"1", "T">>,
     <<"2", "0", "4", "8", "k">>,
     <<"2", "0", "4", "8", "K", "i">>,
     <<"7", "M">>,
     <<"3", "G">>,
     <<"1", " ", "G", "i">>,
     <<" ", "1", "G", "i", " ">>,
     <<"1", ".", "5", " ", "G">>,
     <<"1", "M", "i", "5">>,
     <<"1", "K", "B">>,
     <<"1", "m">>}

MemoryStrings == SeqsUpTo(MemoryChars, MaxMemLen) \cup MemoryLiterals

ParseMemory ==
    /\ parseOut.op = "none"
    /\ parseOut' = [op |-> "parseMemoryToMiB", ret |-> parseMemoryToMiB(parseIn)]
    /\ UNCHANGED <<resourceMappers, regVars, normVars, projVars, resolveVars>>
    /\ UNCHANGED <<startupVars, parseIn, toolVars, moreVars>>

InitParse ==
    /\ resourceMappers = InitializedRegistry
    /\ regHistory = <<>>
    /\ lastCall = NoCall
    /\ parseIn \in MemoryStrings
    /\ parseOut = NoCall
    /\ NormIdle
    /\ ProjIdle
    /\ ResolveIdle
    /\ StartupIdle
    /\ ToolIdle
    /\ CallIdle
    /\ DurIdle
    /\ MainIdle

NextParse == ParseMemory

SpecParse == InitParse /\ [][NextParse]_vars

\* <decimal number>: digits, optionally followed by a point and digits.
IsDecimal(q) ==
    /\ q # <<>>
    /\ \A i \in 1..Len(q) : q[i] \in DigitChars \cup {"."}
    /\ Cardinality({i \in 1..Len(q) : q[i] = "."}) <= 1
    /\ q[1] # "." /\ q[Len(q)] # "."

IsDigitChar(c) == c \in DigitChars
FractionDigits(q) ==
    IF \E i \in 1..Len(q) : q[i] = "."
    THEN Len(q) - (CHOOSE i \in 1..Len(q) : q[i] = ".")
    ELSE 0

\* The conversion table: what a value with the suffix is multiplied and
\* divided by to give MiB.
Suffixes ==
    {<<>>, <<"k">>, <<"K", "i">>, <<"M">>, <<"M", "i">>, <<"G">>, <<"G", "i">>,
     <<"T">>, <<"T", "i">>}
SuffixDivisor(suffix) ==
    CASE suffix = <<>> -> 1048576
      [] suffix \in {<<"k">>, <<"K", "i">>} -> 1024
      [] OTHER -> 1
SuffixMultiplier(suffix) ==
    CASE suffix \in {<<"G">>, <<"G", "i">>} -> 1024
      [] suffix \in {<<"T">>, <<"T", "i">>} -> 1048576
      [] OTHER -> 1

\* The decimal number times the suffix's factor, truncated toward zero.
TruncatedMiB(number, suffix) ==
    (DigitsValue(SelectSeq(number, IsDigitChar)) * SuffixMultiplier(suffix))
        \div (PowerOfTen(FractionDigits(number)) * SuffixDivisor(suffix))

AllSpaces(q) == \A i \in 1..Len(q) : q[i] \in SpaceChars

\* q is <spaces><decimal number><spaces><suffix><spaces> cut at a, b, c, d.
SplitsAs(q, a, b, c, d) ==
    /\ a <= b /\ b <= c /\ c <= d
    /\ AllSpaces(SubSeq(q, 1, a))
    /\ IsDecimal(SubSeq(q, a + 1, b))
    /\ AllSpaces(SubSeq(q, b + 1, c))
    /\ SubSeq(q, c + 1, d) \in Suffixes
    /\ AllSpaces(SubSeq(q, d + 1, Len(q)))

LiteralCases ==
    /\ parseIn = <<>> => parseOut.ret = 0
    /\ parseIn = <<"1", "2", "8", "M", "i">> => parseOut.ret = 128
    /\ parseIn = <<"1", "G", "i">> => parseOut.ret = 1024
    /\ parseIn = <<"1", ".", "5", "G", "i">> => parseOut.ret = 1536
    /\ parseIn = <<"5", "0", "0", "0", "0", "0", "0", "0", "0">> => parseOut.ret = 476
    /\ parseIn = <<"i", "n", "v", "a", "l", "i", "d">> => parseOut.ret = 0
    /\ parseIn = <<"1", "2", "3">> => parseOut.ret = 0

\* C13 as stated: the input <decimal number><suffix> gives the number
\* converted to MiB and truncated, every other input gives 0.
C13_ParsesNumberThenSuffix ==
    parseOut.op # "none" =>
        /\ \A n \in 0..Len(parseIn) :
              SplitsAs(parseIn, 0, n, n, Len(parseIn)) =>
                  parseOut.ret = TruncatedMiB(SubSeq(parseIn, 1, n), Drop(parseIn, n))
        /\ (~\E n \in 0..Len(parseIn) : SplitsAs(parseIn, 0, n, n, Len(parseIn))) =>
              parseOut.ret = 0
        /\ LiteralCases

\* C13, amended: spaces around the input and between the number and the
\* suffix are ignored; the input <decimal number><suffix> so read gives the
\* number converted to MiB and truncated, every other input gives 0.
C13_ParsesNumberThenSuffixIgnoringSpaces ==
    parseOut.op # "none" =>
        /\ \A a, b, c, d \in 0..Len(parseIn) :
              SplitsAs(parseIn, a, b, c, d) =>
                  parseOut.ret = TruncatedMiB(SubSeq(parseIn, a + 1, b),
                                              SubSeq(parseIn, c + 1, d))
        /\ (~\E a, b, c, d \in 0..Len(parseIn) : SplitsAs(parseIn, a, b, c, d)) =>
              parseOut.ret = 0
        /\ LiteralCases

\* "1.5Gi" parsed to 1536.
C13_Witness ==
    /\ parseIn = <<"1", ".", "5", "G", "i">>
    /\ parseOut.op = "parseMemoryToMiB"
    /\ parseOut.ret = 1536

-----------------------------------------------------------------------------
(* The get_k8s_pod_logs tool, get_pod_logs.go:67-178                       *)

MaxTail == 2
DefaultTail == 10

\* The values of the since argument, as sequences of characters.
SinceStrings ==
    {<<>>, <<"5", "m">>, <<"1", "h", "3", "0", "m">>, <<"1", "5", "0", "0", "m", "s">>,
     <<"-", "9", "0", "s">>, <<"9", "0">>, <<"5", "x">>, <<"a", "b", "c">>, <<"0">>}

SinceTimeStrings == {"", TsHourAgo, "yesterday"}

LogsRequests ==
    [context : {Argument(FALSE, ""), Argument(TRUE, "prod")},
     namespace : {Argument(TRUE, "default")},
     name : {Argument(FALSE, ""), Argument(TRUE, "web-0")},
     since : {Argument(FALSE, <<>>)} \cup {Argument(TRUE, s) : s \in SinceStrings},
     sinceTime : {Argument(FALSE, "")} \cup {Argument(TRUE, s) : s \in SinceTimeStrings},
     tail : {Argument(FALSE, 0)} \cup {Argument(TRUE, n) : n \in 0..MaxTail}]

\* unitMap of time.ParseDuration, in milliseconds; the units below a
\* millisecond are left out.
unitMap ==
    (<<"m", "s">> :> 1) @@ (<<"s">> :> 1000) @@ (<<"m">> :> 60000) @@ (<<"h">> :> 3600000)

\* The [0-9]+[a-z]+ terms of a duration string, summed, in milliseconds.
RECURSIVE durationTerms(_)
durationTerms(s) ==
    IF s = <<>> THEN [ok |-> TRUE, ms |-> 0]
    ELSE LET nd == PrefixLen(s, DigitChars)
             nu == PrefixLen(Drop(s, nd), LetterChars)
             unit == SubSeq(s, nd + 1, nd + nu)
             rest == durationTerms(Drop(s, nd + nu))
         IN  IF nd = 0 \/ nu = 0 \/ unit \notin DOMAIN unitMap \/ ~rest.ok
             THEN [ok |-> FALSE, ms |-> 0]
             ELSE [ok |-> TRUE, ms |-> DigitsValue(SubSeq(s, 1, nd)) * unitMap[unit] + rest.ms]

\* time.ParseDuration(s) on strings without a decimal point: an optional
\* sign, then "0" or one or more terms.
timeParseDuration(s) ==
    LET neg == s # <<>> /\ Head(s) = "-"
        body == IF s # <<>> /\ Head(s) \in {"-", "+"} THEN Tail(s) ELSE s
        terms == durationTerms(body)
    IN  IF body = <<"0">> THEN [ok |-> TRUE, ms |-> 0]
        ELSE IF body = <<>> \/ ~terms.ok THEN [ok |-> FALSE, ms |-> 0]
        ELSE [ok |-> TRUE, ms |-> IF neg THEN 0 - terms.ms ELSE terms.ms]

\* int64(duration.Seconds()): the conversion truncates toward zero.
truncatedSeconds(ms) == IF ms < 0 THEN 0 - ((0 - ms) \div 1000) ELSE ms \div 1000

\* func parseDuration(durationStr string) (int64, error)
parseDuration(durationStr) ==
    LET d == timeParseDuration(durationStr)
    IN  IF durationStr = <<>> THEN [err |-> "", seconds |-> 0]
        ELSE IF ~d.ok
            THEN [err |-> "invalid duration format: time: invalid duration", seconds |-> 0]
        ELSE [err |-> "", seconds |-> truncatedSeconds(d.ms)]

\* func extractGetK8sPodLogsParams(request) (*getPodLogsParams, error)
extractGetK8sPodLogsParams(request) ==
    LET context == RequireString(request, "context")
        namespace == RequireString(request, "namespace")
        name == RequireString(request, "name")
        none == [err |-> "", Context |-> "", Namespace |-> "", Name |-> "",
                 Since |-> <<>>, SinceTime |-> "", Tail |-> 0]
    IN  IF context.err # "" THEN [none EXCEPT !.err = context.err]
        ELSE IF namespace.err # "" THEN [none EXCEPT !.err = namespace.err]
        ELSE IF name.err # "" THEN [none EXCEPT !.err = name.err]
        ELSE [err |-> "", Context |-> context.value, Namespace |-> namespace.value,
              Name |-> name.value,
              Since |-> GetArgument(request, "since", <<>>),
              SinceTime |-> GetArgument(request, "sinceTime", ""),
              Tail |-> GetArgument(request, "tail", DefaultTail)]

\* corev1.PodLogOptions: the pointer fields are nil or hold a value.
Pointer(set, value) == [set |-> set, value |-> value]
Nil == Pointer(FALSE, 0)
PodLogOptions(tailLines, sinceSeconds, sinceTime) ==
    [TailLines |-> tailLines, SinceSeconds |-> sinceSeconds, SinceTime |-> sinceTime]
NoLogOptions == PodLogOptions(Nil, Nil, Nil)

\* One finished handler run: the request, the tool result, and what the
\* handler did on the way (clientsets created, log requests sent and the
\* options of the request).
LogsCall(request, isError, text, clientsets, requests, options) ==
    [op |-> "get_k8s_pod_logs", request |-> request, isError |-> isError, text |-> text,
     clientsets |-> clientsets, requests |-> requests, options |-> options]

\* Lines 114-131: the log request and its stream.
logsStream(request, options, streamFails) ==
    IF streamFails
    THEN LogsCall(request, TRUE, "Failed to get pod logs: " \o ErrUnreachable, 1, 1, options)
    ELSE LogsCall(request, FALSE, "log line", 1, 1, options)

\* Lines 98-112: since and sinceTime, one of them at most is not empty.
\* The first variant checks neither of them before the request is sent.
logsWithOptionsUnchecked(request, params, tailLines, duration, sinceTime, streamFails) ==
    logsStream(request,
               PodLogOptions(tailLines,
                             IF params.Since # <<>> THEN Pointer(TRUE, duration.seconds)
                             ELSE Nil,
                             IF params.Since = <<>> /\ params.SinceTime # ""
                             THEN Pointer(TRUE, sinceTime.t.sec) ELSE Nil),
               streamFails)

logsWithOptions(request, params, tailLines, duration, sinceTime, streamFails) ==
    IF params.Since # <<>>
    THEN IF duration.err # ""
         THEN LogsCall(request, TRUE, "Invalid 'since' duration: " \o duration.err,
                       1, 0, NoLogOptions)
         ELSE logsStream(request,
                         PodLogOptions(tailLines, Pointer(TRUE, duration.seconds), Nil),
                         streamFails)
    ELSE IF params.SinceTime # ""
    THEN IF ~sinceTime.ok
         THEN LogsCall(request, TRUE,
                       "Invalid 'sinceTime' format (expected RFC3339): parsing time",
                       1, 0, NoLogOptions)
         ELSE logsStream(request,
                         PodLogOptions(tailLines, Nil, Pointer(TRUE, sinceTime.t.sec)),
                         streamFails)
    ELSE logsStream(request, PodLogOptions(tailLines, Nil, Nil), streamFails)

\* Lines 74-96: the exclusion of since and sinceTime, the clientset and
\* the tail option.
logsWithParams(request, params, clientOutcome, streamFails) ==
    IF params.err # "" THEN LogsCall(request, TRUE, params.err, 0, 0, NoLogOptions)
    ELSE IF params.Since # <<>> /\ params.SinceTime # ""
        THEN LogsCall(request, TRUE,
                      "cannot specify both 'since' and 'sinceTime' parameters",
                      0, 0, NoLogOptions)
    ELSE IF clientOutcome.err # ""
        THEN LogsCall(request, TRUE,
                      "Failed to create Kubernetes clientset: " \o clientOutcome.err,
                      1, 0, NoLogOptions)
    ELSE logsWithOptions(request, params,
                         IF params.Tail > 0 THEN Pointer(TRUE, params.Tail) ELSE Nil,
                         parseDuration(params.Since), ParseRFC3339(params.SinceTime),
                         streamFails)

\* func getK8sPodLogsHandler(ctx, request) (*mcp.CallToolResult, error).
\* A behaviour follows one request.
getK8sPodLogsHandler ==
    \E request \in LogsRequests,
       clientOutcome \in {Succeeds, Fails("ClientConfig", ErrNoSuchContext)},
       streamFails \in BOOLEAN :
        /\ logsCall.op = "none"
        /\ logsCall' = logsWithParams(request, extractGetK8sPodLogsParams(request),
                                      clientOutcome, streamFails)
        /\ UNCHANGED <<resourceMappers, regVars, normVars, projVars, resolveVars>>
        /\ UNCHANGED <<startupVars, parseVars, toolVars, metricsCall, getCall>>
        /\ UNCHANGED <<durVars, mainVars>>

InitLogs ==
    /\ resourceMappers = InitializedRegistry
    /\ regHistory = <<>>
    /\ lastCall = NoCall
    /\ NormIdle
    /\ ProjIdle
    /\ ResolveIdle
    /\ StartupIdle
    /\ ParseIdle
    /\ ToolIdle
    /\ CallIdle
    /\ DurIdle
    /\ MainIdle

NextLogs == getK8sPodLogsHandler

SpecLogs == InitLogs /\ [][NextLogs]_vars

LogsSince == logsCall.request.since
LogsSinceTime == logsCall.request.sinceTime
LogsParamsOk == logsCall.request.context.present /\ logsCall.request.name.present

\* C21: a get_k8s_pod_logs request with both since and sinceTime not empty
\* gets an error result with no clientset created and no log request sent;
\* a since that is not a duration, or a sinceTime that is not RFC3339, gets
\* an error result with no log request sent.
C21_SinceArgumentsValidated ==
    logsCall.op # "none" =>
        /\ LogsSince.value # <<>> /\ LogsSinceTime.value # "" =>
              /\ logsCall.isError
              /\ logsCall.clientsets = 0
              /\ logsCall.requests = 0
        /\ LogsSince.value # <<>> /\ ~timeParseDuration(LogsSince.value).ok =>
              logsCall.isError /\ logsCall.requests = 0
        /\ LogsSinceTime.value # "" /\ ~ParseRFC3339(LogsSinceTime.value).ok =>
              logsCall.isError /\ logsCall.requests = 0

\* A complete request whose since is not a duration, with no sinceTime, was
\* turned down after the clientset was created.
C21_Witness ==
    /\ logsCall.op # "none"
    /\ LogsParamsOk
    /\ LogsSince.value = <<"9", "0">>
    /\ LogsSinceTime.value = ""
    /\ logsCall.isError
    /\ logsCall.clientsets = 1
    /\ logsCall.requests = 0

-----------------------------------------------------------------------------
(* The get_k8s_metrics tool, get_k8s_metrics.go:93-290                     *)

MaxMetrics == 2

KindNodeLower == <<110, 111, 100, 101>>
KindNodeTitle == <<78, 111, 100, 101>>

\* corev1.ResourceList of a usage sample: cpu as a quantity of microcores,
\* memory as a quantity of bytes.  Sample i is chosen so that neither of
\* the two is a whole number of millicores or MiB.
Usage(i) == [cpu |-> 1500 * i + 1, memory |-> 1572864 * i - 1000]

\* The metrics API objects of the cluster: node i, and pod i with i
\* containers, in namespace default when i is odd.
NodeMetric(i) == [Name |-> "node-" \o ToString(i), Usage |-> Usage(i)]
PodMetric(i) ==
    [Name |-> "web-" \o ToString(i),
     Namespace |-> IF i % 2 = 1 THEN "default" ELSE "kube-system",
     Containers |-> [j \in 1..i |-> [Name |-> "c" \o ToString(j), Usage |-> Usage(i + j)]]]

MetricsRequests ==
    [context : {Argument(FALSE, ""), Argument(TRUE, "prod")},
     kind : {Argument(FALSE, <<>>), Argument(TRUE, KindNodeLower),
             Argument(TRUE, KindNodeTitle), Argument(TRUE, KindPodLower),
             Argument(TRUE, KindDeployment)},
     namespace : {Argument(FALSE, ""), Argument(TRUE, "default")},
     name : {Argument(FALSE, ""), Argument(TRUE, ""), Argument(TRUE, "node-1"),
             Argument(TRUE, "web-1")},
     sum : {Argument(FALSE, FALSE), Argument(TRUE, FALSE), Argument(TRUE, TRUE)}]

\* func extractGetK8sMetricsParams(request) (*getK8sMetricsParams, error)
extractGetK8sMetricsParams(request) ==
    LET context == RequireString(request, "context")
        none == [err |-> "", Context |-> "", Kind |-> <<>>, Namespace |-> "",
                 Name |-> "", Sum |-> FALSE]
    IN  IF context.err # "" THEN [none EXCEPT !.err = context.err]
        ELSE IF ~request.kind.present
            THEN [none EXCEPT !.err = "required argument \"kind\" not found"]
        ELSE [err |-> "", Context |-> context.value,
              Kind |-> stringsToLower(request.kind.value),
              Namespace |-> GetArgument(request, "namespace", ""),
              Name |-> GetArgument(request, "name", ""),
              Sum |-> GetArgument(request, "sum", FALSE)]

\* Quantity.MilliValue() of a cpu quantity in microcores: rounded up.
MilliValue(microcores) == (microcores + 999) \div 1000

\* func convertResourceUsage(usage) (cpuMillicores int64, memoryMiB int64)
convertResourceUsage(usage) ==
    [cpuMillicores |-> MilliValue(usage.cpu),
     memoryMiB |-> usage.memory \div (1024 * 1024)]

NodeMetrics(name, cpu, memory) ==
    [Name |-> name, CPUUsageMillicores |-> cpu, MemoryUsageMiB |-> memory]
PodMetrics(name, namespace, cpu, memory, containers) ==
    [Name |-> name, Namespace |-> namespace, CPUUsageMillicores |-> cpu,
     MemoryUsageMiB |-> memory, Containers |-> containers]

\* The sum of an int64 field over the entries of a slice.
RECURSIVE SumOf(_, _)
SumOf(entries, field) ==
    IF entries = <<>> THEN 0 ELSE Head(entries)[field] + SumOf(Tail(entries), field)

\* func processNodeMetric(nodeMetric) NodeMetrics
processNodeMetric(nodeMetric) ==
    LET usage == convertResourceUsage(nodeMetric.Usage)
    IN  NodeMetrics(nodeMetric.Name, usage.cpuMillicores, usage.memoryMiB)

\* func processPodMetric(podMetric) PodMetrics
processPodMetric(podMetric) ==
    LET containers ==
            [j \in 1..Len(podMetric.Containers) |->
                NodeMetrics(podMetric.Containers[j].Name,
                            convertResourceUsage(podMetric.Containers[j].Usage).cpuMillicores,
                            convertResourceUsage(podMetric.Containers[j].Usage).memoryMiB)]
    IN  PodMetrics(podMetric.Name, podMetric.Namespace,
                   SumOf(containers, "CPUUsageMillicores"),
                   SumOf(containers, "MemoryUsageMiB"), containers)

\* The objects of a list whose name is the given one.
RECURSIVE Named(_, _, _)
Named(objects, namespace, name) ==
    IF objects = <<>> THEN <<>>
    ELSE (IF Head(objects).Name = name
             /\ ("Namespace" \in DOMAIN Head(objects) => Head(objects).Namespace = namespace)
          THEN <<Head(objects)>> ELSE <<>>) \o Named(Tail(objects), namespace, name)

RECURSIVE InMetricsNamespace(_, _)
InMetricsNamespace(objects, namespace) ==
    IF objects = <<>> THEN <<>>
    ELSE (IF namespace = "" \/ Head(objects).Namespace = namespace
          THEN <<Head(objects)>> ELSE <<>>) \o InMetricsNamespace(Tail(objects), namespace)

\* A (content, error) pair returned by getNodeMetrics or getPodMetrics,
\* with the metrics API calls made.
MetricsContent(err, entries, gets, lists) ==
    [err |-> err, entries |-> entries, gets |-> gets, lists |-> lists]

\* A variant of the total entry that converts the summed raw usage instead
\* of summing the converted entries.
totalNodeMetricsOfRawUsage(objects, processed) ==
    NodeMetrics("TOTAL",
                MilliValue(SumOf([i \in 1..Len(objects) |-> objects[i].Usage], "cpu")),
                SumOf([i \in 1..Len(objects) |-> objects[i].Usage], "memory")
                    \div (1024 * 1024))

\* Lines 169-186: the total entry of a node listing.
totalNodeMetrics(objects, processed) ==
    NodeMetrics("TOTAL", SumOf(processed, "CPUUsageMillicores"),
                SumOf(processed, "MemoryUsageMiB"))

\* Lines 211-236: the total entry of a pod listing.
totalPodMetrics(namespace, processed) ==
    PodMetrics("TOTAL", IF namespace = "" THEN "ALL" ELSE namespace,
               SumOf(processed, "CPUUsageMillicores"),
               SumOf(processed, "MemoryUsageMiB"), <<>>)

\* func getNodeMetrics(ctx, metricsClient, nodeName, includeSum) ([]NodeMetrics, error)
getNodeMetrics(objects, apiFails, nodeName, includeSum) ==
    LET found == Named(objects, "", nodeName)
        processed == [i \in 1..Len(objects) |-> processNodeMetric(objects[i])]
    IN  IF nodeName # ""
        THEN IF apiFails \/ found = <<>>
             THEN MetricsContent("failed to get node metrics for " \o nodeName, <<>>, 1, 0)
             ELSE MetricsContent("", <<processNodeMetric(found[1])>>, 1, 0)
        ELSE IF apiFails
             THEN MetricsContent("failed to list node metrics: " \o ErrUnreachable, <<>>, 0, 1)
        ELSE MetricsContent("",
                 processed \o (IF includeSum THEN <<totalNodeMetrics(objects, processed)>>
                               ELSE <<>>),
                 0, 1)

\* func getPodMetrics(ctx, metricsClient, namespace, podName, includeSum) ([]PodMetrics, error)
\* PodMetricses(namespace).Get needs a namespace to find the pod in.
getPodMetrics(objects, apiFails, namespace, podName, includeSum) ==
    LET found == Named(objects, namespace, podName)
        listed == InMetricsNamespace(objects, namespace)
        processed == [i \in 1..Len(listed) |-> processPodMetric(listed[i])]
    IN  IF podName # ""
        THEN IF apiFails \/ found = <<>>
             THEN MetricsContent("failed to get pod metrics for " \o podName, <<>>, 1, 0)
             ELSE MetricsContent("", <<processPodMetric(found[1])>>, 1, 0)
        ELSE IF apiFails
             THEN MetricsContent("failed to list pod metrics: " \o ErrUnreachable, <<>>, 0, 1)
        ELSE MetricsContent("",
                 processed \o (IF includeSum THEN <<totalPodMetrics(namespace, processed)>>
                               ELSE <<>>),
                 0, 1)

\* One finished handler run: the request, the tool result (the entries of
\* the JSON array on success), and the calls made on the way.
MetricsCall(request, isError, text, entries, clients, gets, lists) ==
    [op |-> "get_k8s_metrics", request |-> request, isError |-> isError, text |-> text,
     entries |-> entries, clients |-> clients, gets |-> gets, lists |-> lists]

\* Lines 119-124: the result of getNodeMetrics or getPodMetrics.
metricsResponse(request, kindText, content) ==
    IF content.err # ""
    THEN MetricsCall(request, TRUE,
                     "Failed to get " \o kindText \o " metrics: " \o content.err,
                     <<>>, 1, content.gets, content.lists)
    ELSE MetricsCall(request, FALSE, "", content.entries, 1, content.gets, content.lists)

\* Lines 95-117: parameters, kind, metrics client, then the metrics.
metricsWithParams(request, params, clientOutcome, n, apiFails) ==
    IF params.err # "" THEN MetricsCall(request, TRUE, params.err, <<>>, 0, 0, 0)
    ELSE IF params.Kind # KindNodeLower /\ params.Kind # KindPodLower
        THEN MetricsCall(request, TRUE, "kind must be 'node' or 'pod'", <<>>, 0, 0, 0)
    ELSE IF clientOutcome.err # ""
        THEN MetricsCall(request, TRUE,
                         "Failed to create metrics client: " \o clientOutcome.err,
                         <<>>, 1, 0, 0)
    ELSE IF params.Kind = KindNodeLower
        THEN metricsResponse(request, "node",
                 getNodeMetrics([i \in 1..n |-> NodeMetric(i)], apiFails, params.Name,
                                params.Sum))
    ELSE metricsResponse(request, "pod",
             getPodMetrics([i \in 1..n |-> PodMetric(i)], apiFails, params.Namespace,
                           params.Name, params.Sum))

\* func getK8sMetricsHandler(ctx, request) (*mcp.CallToolResult, error),
\* against a cluster that reports n nodes and n pods.  A behaviour follows
\* one request.
getK8sMetricsHandler ==
    \E request \in MetricsRequests,
       clientOutcome \in {Succeeds, Fails("ClientConfig", ErrNoSuchContext)},
       n \in 0..MaxMetrics, apiFails \in BOOLEAN :
        /\ metricsCall.op = "none"
        /\ metricsCall' = metricsWithParams(request, extractGetK8sMetricsParams(request),
                                            clientOutcome, n, apiFails)
        /\ UNCHANGED <<resourceMappers, regVars, normVars, projVars, resolveVars>>
        /\ UNCHANGED <<startupVars, parseVars, toolVars, logsCall, getCall>>
        /\ UNCHANGED <<durVars, mainVars>>

InitMetrics ==
    /\ resourceMappers = InitializedRegistry
    /\ regHistory = <<>>
    /\ lastCall = NoCall
    /\ NormIdle
    /\ ProjIdle
    /\ ResolveIdle
    /\ StartupIdle
    /\ ParseIdle
    /\ ToolIdle
    /\ CallIdle
    /\ DurIdle
    /\ MainIdle

NextMetrics == getK8sMetricsHandler

SpecMetrics == InitMetrics /\ [][NextMetrics]_vars

MetricsEntries == metricsCall.entries
MetricsSucceeded == metricsCall.op # "none" /\ ~metricsCall.isError
MetricsNameFilter == metricsCall.request.name.value
MetricsSum == metricsCall.request.sum.value
TotalEntries == {i \in 1..Len(MetricsEntries) : MetricsEntries[i].Name = "TOTAL"}
BeforeLast(entries) == SubSeq(entries, 1, Len(entries) - 1)

\* C22: a get_k8s_metrics listing (no name filter) with sum true ends with
\* exactly one entry named TOTAL, whose CPU millicores and memory MiB are
\* the sums of these fields over the entries before it; with sum false, or
\* with a name filter, the result has no TOTAL entry.
C22_TotalEntrySumsListing ==
    MetricsSucceeded =>
        /\ MetricsNameFilter = "" /\ MetricsSum =>
              /\ TotalEntries = {Len(MetricsEntries)}
              /\ MetricsEntries[Len(MetricsEntries)].CPUUsageMillicores
                     = SumOf(BeforeLast(MetricsEntries), "CPUUsageMillicores")
              /\ MetricsEntries[Len(MetricsEntries)].MemoryUsageMiB
                     = SumOf(BeforeLast(MetricsEntries), "MemoryUsageMiB")
        /\ ~MetricsSum \/ MetricsNameFilter # "" => TotalEntries = {}

\* A listing of two nodes with sum true: the total is 2 + 4 millicores and
\* 1 + 2 MiB.
C22_Witness ==
    /\ MetricsSucceeded
    /\ MetricsSum
    /\ MetricsNameFilter = ""
    /\ metricsCall.request.kind.value = KindNodeTitle
    /\ Len(MetricsEntries) = 3
    /\ MetricsEntries[3] = NodeMetrics("TOTAL", 6, 3)

-----------------------------------------------------------------------------
(* The get_k8s_resource tool, get_k8s_resource.go:69-166, and requests     *)
(* served one after the other                                              *)

TemplateName == "{{.metadata.name}}"
TemplateBroken == "{{"

GetRequests ==
    [context : {Argument(FALSE, ""), Argument(TRUE, "prod")},
     name : {Argument(FALSE, ""), Argument(TRUE, "web-0"), Argument(TRUE, "web"),
             Argument(TRUE, "absent")},
     kind : {Argument(FALSE, <<>>), Argument(TRUE, KindPod), Argument(TRUE, KindConfigMap)},
     namespace : {Argument(FALSE, ""), Argument(TRUE, "default")},
     goTemplate : {Argument(FALSE, ""), Argument(TRUE, TemplateName),
                   Argument(TRUE, TemplateBroken)}]

\* func extractGetK8sResourceParams(request) (*getK8sResourceParams, error)
extractGetK8sResourceParams(request) ==
    LET context == RequireString(request, "context")
        name == RequireString(request, "name")
        none == [err |-> "", Context |-> "", Name |-> "", Namespace |-> "", Group |-> "",
                 Version |-> "", Kind |-> <<>>, GoTemplate |-> ""]
    IN  IF context.err # "" THEN [none EXCEPT !.err = context.err]
        ELSE IF name.err # "" THEN [none EXCEPT !.err = name.err]
        ELSE IF ~request.kind.present
            THEN [none EXCEPT !.err = "required argument \"kind\" not found"]
        ELSE [err |-> "", Context |-> context.value, Name |-> name.value,
              Namespace |-> GetArgument(request, "namespace", ""),
              Group |-> "", Version |-> "v1", Kind |-> request.kind.value,
              GoTemplate |-> GetArgument(request, "goTemplate", "")]

\* dynamicClient.Resource(gvr)[.Namespace(ns)].Get(ctx, name, GetOptions):
\* the object of that name in that namespace, or a not-found error.  A
\* request without namespace finds none of the namespaced objects.
DynamicGet(gvr, namespace, name) ==
    LET all == ClusterObjects(gvr.Resource)
        found == {i \in 1..Len(all) :
                      GetName(all[i]) = name /\ GetNamespace(all[i]) = namespace}
    IN  IF found = {} THEN [err |-> "not found", resource |-> JNull]
        ELSE [err |-> "", resource |-> all[CHOOSE i \in found : TRUE]]

\* One finished handler run: the request, the tool result and the Go error
\* returned with it, and what the handler did on the way (resolutions
\* made, clients created, the Get call, the projection).
GetResourceCall(request, isError, text, resolutions, clients, fetched, projected) ==
    [op |-> "get_k8s_resource", request |-> request, isError |-> isError, text |-> text,
     resolutions |-> resolutions, clients |-> clients, fetched |-> fetched,
     projected |-> projected, goErr |-> ""]

\* func applyGoTemplate(resource, templateStr) (*mcp.CallToolResult, error)
\* for the templates of the model.
applyGoTemplate(request, resource, templateStr) ==
    IF templateStr = TemplateBroken
    THEN GetResourceCall(request, TRUE, "Failed to parse Go template: unclosed action",
                 1, 1, TRUE, FALSE)
    ELSE GetResourceCall(request, FALSE, GetName(resource), 1, 1, TRUE, FALSE)

\* Lines 111-120: the template if there is one, else the projection.
getResponse(request, params, gvk, resource, clock) ==
    IF params.GoTemplate # "" THEN applyGoTemplate(request, resource, params.GoTemplate)
    ELSE LET content == mapToK8sResourceContent(resourceMappers, resource, gvk, clock, <<>>)
         IN  GetResourceCall(request, FALSE, toJSON(content.out[1]), 1, 1, TRUE, TRUE)

\* Lines 89-109: the dynamic client, then the Get call.
getWithClient(request, params, gvk, r, dynamic, fetch, getFails, clock) ==
    IF dynamic.err # ""
        THEN GetResourceCall(request, TRUE, "Failed to create dynamic client: " \o dynamic.err,
                     1, 1, FALSE, FALSE)
    ELSE IF getFails
        THEN GetResourceCall(request, TRUE, "Failed to get resource: " \o ErrUnreachable,
                     1, 1, TRUE, FALSE)
    ELSE IF fetch.err # ""
        THEN GetResourceCall(request, TRUE, "Failed to get resource: " \o fetch.err,
                     1, 1, TRUE, FALSE)
    ELSE getResponse(request, params, gvk, fetch.resource, clock)

\* A variant of the step below that goes on to the dynamic client and the
\* Get call whatever the resolution returned.
getResolvedIgnoringError(request, params, gvk, r, clientOutcome, getFails, serial, clock) ==
    HandlerRun(<<r>>, r.discoveryRuns + 1,
        getWithClient(request, params, gvk, r,
                      getClientsForContext(params.Context, clientOutcome, serial + 1),
                      DynamicGet([Resource |-> "pods"], params.Namespace, params.Name),
                      getFails, clock))

\* Lines 84-87: the result of k8s.GVKToGVR.
getResolved(request, params, gvk, r, clientOutcome, getFails, serial, clock) ==
    IF r.err # ""
        THEN HandlerRun(<<r>>, r.discoveryRuns,
                        GetResourceCall(request, TRUE, r.err, 1, 0, FALSE, FALSE))
    ELSE HandlerRun(<<r>>,
             r.discoveryRuns
                 + getClientsForContext(params.Context, clientOutcome, serial + 1).discoveryRuns,
             getWithClient(request, params, gvk, r,
                           getClientsForContext(params.Context, clientOutcome, serial + 1),
                           DynamicGet(r.gvr, params.Namespace, params.Name), getFails, clock))

\* Lines 71-84: the parameters, the GVK and its resolution.
getWithParams(request, params, outcome, clientOutcome, getFails, serial, clock) ==
    IF params.err # ""
        THEN HandlerRun(<<>>, 0, GetResourceCall(request, TRUE, params.err, 0, 0, FALSE, FALSE))
    ELSE getResolved(request, params, GVK(params.Group, params.Version, params.Kind),
                     gvkToGVR(params.Context,
                              GVK(params.Group, params.Version, params.Kind),
                              outcome, serial),
                     clientOutcome, getFails, serial, clock)

\* The state after a handler run.
GetReturns(run) ==
    /\ getCall' = run.call
    /\ resolved' = resolved \o run.resolved
    /\ discoveries' = discoveries + run.discoveryRuns
    /\ restMappings' = restMappings \o
           (IF run.resolved = <<>> THEN <<>> ELSE run.resolved[1].requests)
    /\ UNCHANGED <<resourceMappers, regVars, normVars, projVars>>
    /\ UNCHANGED <<startupVars, parseVars, toolVars, logsCall, metricsCall>>
    /\ UNCHANGED <<durVars, mainVars>>

\* func getK8sResourceHandler(ctx, request) (*mcp.CallToolResult, error),
\* the first request of a behaviour.
getK8sResourceHandler ==
    \E request \in GetRequests, outcome \in Outcomes,
       clientOutcome \in {Succeeds, Fails("ClientConfig", ErrNoSuchContext)},
       getFails \in BOOLEAN :
        /\ getCall.op = "none"
        /\ listCall.op = "none"
        /\ GetReturns(getWithParams(request, extractGetK8sResourceParams(request), outcome,
                                    clientOutcome, getFails, discoveries + 1, now))

\* The list_k8s_resources requests that follow a get_k8s_resource request.
LaterListRequests ==
    {request \in ListRequests : request.namespace.present /\ ~request.limit.present}

\* listK8sResourcesHandler serving a request after the get_k8s_resource
\* request has been answered.
listK8sResourcesHandlerLater ==
    \E request \in LaterListRequests,
       outcome \in {Succeeds, Fails("ClientConfig", ErrNoSuchContext),
                    Fails("restmapper.GetAPIGroupResources", ErrUnreachable)},
       clientOutcome \in {Succeeds, Fails("ClientConfig", ErrNoSuchContext)},
       listFails \in BOOLEAN :
        /\ getCall.op # "none"
        /\ listCall.op = "none"
        /\ ListReturns(listK8sResources(request, outcome, clientOutcome, listFails,
                                        discoveries + 1, now))

InitFetch ==
    /\ resourceMappers = InitializedRegistry
    /\ regHistory = <<>>
    /\ lastCall = NoCall
    /\ NormIdle
    /\ ProjIdle
    /\ ResolveIdle
    /\ StartupIdle
    /\ ParseIdle
    /\ ToolIdle
    /\ CallIdle
    /\ DurIdle
    /\ MainIdle

NextFetch == getK8sResourceHandler \/ listK8sResourcesHandlerLater

SpecFetch == InitFetch /\ [][NextFetch]_vars

\* The resolution each of the two requests made, when it made one: the get
\* request is the first of the behaviour, the list request the last.
GetResolved == getCall.op # "none" /\ getCall.resolutions = 1
ListResolved == listCall.op # "none" /\ listCall.resolutions = 1
GetResolution == resolved[1]
ListResolution == resolved[Len(resolved)]

\* C23: the list and get handlers fetch (List or Get) only after the
\* GVK -> GVR resolution succeeded and project only after the fetch
\* succeeded; when the resolution fails the tool result is an error with
\* the resolver's text, nothing is fetched or projected, and no Go error is
\* returned.
C23_ResolveThenFetchThenProject ==
    /\ getCall.op # "none" =>
          /\ getCall.goErr = ""
          /\ getCall.fetched => GetResolved /\ GetResolution.err = ""
          /\ getCall.projected => getCall.fetched /\ ~getCall.isError
          /\ GetResolved /\ GetResolution.err # "" =>
                /\ getCall.isError
                /\ getCall.text = GetResolution.err
                /\ ~getCall.fetched
                /\ ~getCall.projected
    /\ listCall.op # "none" =>
          /\ listCall.goErr = ""
          /\ listCall.listed => ListResolved /\ ListResolution.err = ""
          /\ listCall.projected => listCall.listed /\ ~listCall.isError
          /\ ListResolved /\ ListResolution.err # "" =>
                /\ listCall.isError
                /\ listCall.text = ListResolution.err
                /\ ~listCall.listed
                /\ ~listCall.projected

\* A get request whose resolution failed was answered with the resolver's
\* text, and the list request after it was resolved, fetched and projected.
C23_Witness ==
    /\ GetResolved
    /\ GetResolution.err # ""
    /\ getCall.text = GetResolution.err
    /\ ListResolved
    /\ Len(resolved) = 2
    /\ ListResolution.err = ""
    /\ listCall.listed
    /\ listCall.projected

-----------------------------------------------------------------------------
(* Projection runs of the Pod, workload, Service, Job and Event mappers    *)

\* Two containers whose quantities are not whole MiB, one whose quantities
\* are numbers, one without resources, and an entry that is no map.
ItemPodFractions ==
    JMap(("metadata" :> Meta("web-3", "default"))
      @@ ("spec" :> JMap("containers" :> JList(<<
              Container("1.5Mi", "2.5Mi"), Container("1.5Mi", "2.5Mi"),
              JMap("resources" :> JMap(("requests" :> JMap("memory" :> JInt(64)))
                                    @@ ("limits" :> JMap("memory" :> JInt(64))))),
              JMap("name" :> JStr("sidecar")), JStr("web")>>))))

\* Replicas without readyReplicas: status.replicas for the Deployment,
\* spec.replicas for the StatefulSet.
ItemWorkloadNoReady ==
    JMap(("metadata" :> Meta("web", "default"))
      @@ ("spec" :> JMap("replicas" :> JInt(3)))
      @@ ("status" :> JMap("replicas" :> JInt(2))))

\* readyReplicas and spec.replicas without status.replicas.
ItemWorkloadSpecOnly ==
    JMap(("metadata" :> Meta("web", "default"))
      @@ ("spec" :> JMap("replicas" :> JInt(3)))
      @@ ("status" :> JMap("readyReplicas" :> JInt(1))))

\* readyReplicas without any replicas.
ItemWorkloadNoReplicas ==
    JMap(("metadata" :> Meta("web", "default"))
      @@ ("status" :> JMap("readyReplicas" :> JInt(1))))

\* A finished job without spec.completions and without failures.
ItemJobDone ==
    JMap(("metadata" :> Meta("migrate", "default"))
      @@ ("status" :> JMap(("succeeded" :> JInt(3)) @@ ("failed" :> JInt(0))
            @@ ("startTime" :> JStr(TsDayAgo)) @@ ("completionTime" :> JStr(TsHourAgo)))))

\* A job that has not started: an empty startTime, and a completionTime.
ItemJobNotStarted ==
    JMap(("metadata" :> Meta("report", "default"))
      @@ ("spec" :> JMap("completions" :> JInt(1)))
      @@ ("status" :> JMap(("startTime" :> JStr(""))
            @@ ("completionTime" :> JStr(TsHourAgo)))))

\* A started job whose completionTime is empty.
ItemJobEmptyCompletion ==
    JMap(("metadata" :> Meta("sync", "default"))
      @@ ("status" :> JMap(("failed" :> JInt(2)) @@ ("startTime" :> JStr(TsHourAgo))
            @@ ("completionTime" :> JStr("")))))

\* The first port has no protocol, the second has one.
ItemServiceNoProtocol ==
    JMap(("metadata" :> Meta("api", "default"))
      @@ ("spec" :> JMap("ports" :> JList(<<
              JMap("port" :> JInt(443)),
              JMap(("port" :> JInt(80)) @@ ("protocol" :> JStr("TCP")))>>))))

\* The first port entry has no port number, the second has one.
ItemServiceNoFirstPort ==
    JMap(("metadata" :> Meta("dns", "default"))
      @@ ("spec" :> JMap("ports" :> JList(<<
              JMap(("name" :> JStr("dns")) @@ ("protocol" :> JStr("UDP"))),
              JMap(("port" :> JInt(53)) @@ ("protocol" :> JStr("UDP")))>>))))

\* ItemService with another second port.
ItemServiceOtherSecond ==
    JMap(("metadata" :> Meta("web", "default"))
      @@ ("spec" :> JMap(("type" :> JStr("ClusterIP")) @@ ("clusterIP" :> JStr("10.0.0.9"))
            @@ ("externalIPs" :> JList(<<JStr("192.0.2.7"), JInt(1)>>))
            @@ ("ports" :> JList(<<JMap(("port" :> JInt(80)) @@ ("protocol" :> JStr("TCP"))),
                                   JMap(("port" :> JInt(8443))
                                        @@ ("protocol" :> JStr("UDP")))>>)))))

\* An event with both timestamps.
ItemEventBothTimes ==
    JMap(("metadata" :> Meta("web.6", "default"))
      @@ ("firstTimestamp" :> JStr(TsMinuteAgo)) @@ ("eventTime" :> JStr(TsDayAgo)))

\* An event whose firstTimestamp is no RFC 3339 timestamp and whose
\* eventTime is one.
ItemEventBadFirst ==
    JMap(("metadata" :> Meta("web.7", "default"))
      @@ ("firstTimestamp" :> JStr("yesterday")) @@ ("eventTime" :> JStr(TsHourAgo)))

MapperItems ==
    {ItemPodOOMTwice, ItemPodTwoOOM, ItemPodNoOOM, ItemPodFractions, ItemNamespaced,
     ItemWorkload, ItemWorkloadNoReady, ItemWorkloadSpecOnly, ItemWorkloadNoReplicas,
     ItemJob, ItemJobDone, ItemJobNotStarted, ItemJobEmptyCompletion,
     ItemService, ItemServiceNoProtocol, ItemServiceNoFirstPort, ItemServiceOtherSecond,
     ItemEvent, ItemEventBeta, ItemEventBetaBadTime, ItemEventBothTimes, ItemEventBadFirst}

MapperGVKs ==
    {GVK("", "v1", KindPod), GVK("apps", "v1", KindDeployment),
     GVK("apps", "v1", KindStatefulSet), GVK("", "v1", KindService),
     GVK("batch", "v1", KindJob), GVK("", "v1", KindEvent),
     GVK("events.k8s.io", "v1beta1", KindEvent)}

\* getK8sResourceHandler projecting one of these objects under one of
\* these identities.
ProjectFetched ==
    \E gvk \in MapperGVKs, item \in MapperItems :
        /\ projCall.op = "none"
        /\ projCall' = Invoke("mapToK8sResourceContent", <<item>>, gvk, now, <<<<>>>>)
        /\ projRepeat' = NoCall
        /\ UNCHANGED <<resourceMappers, regVars, normVars, resolveVars, now, serverVars>>

InitMappers == InitProject

NextMappers == ProjectFetched \/ Tick

SpecMappers == InitMappers /\ [][NextMappers]_vars

\* What one entry of spec.containers adds to a memory column: the parsed
\* quantity when <entry>.resources.<resource>.memory is a string, else 0.
ContainerMiB(entry, resource) ==
    LET mem == FieldAt(entry, <<"resources", resource, "memory">>)
    IN  IF mem.t = "string" THEN parseMemoryToMiB(StringChars(mem.s)) ELSE 0

RECURSIVE SumContainerMiB(_, _)
SumContainerMiB(entries, resource) ==
    IF entries = <<>> THEN 0
    ELSE ContainerMiB(Head(entries), resource) + SumContainerMiB(Tail(entries), resource)

PodMemorySums(call) ==
    ProjectedBy(call, "mapPodResource") =>
        \A i \in 1..Len(call.items) :
            LET entries == FieldAt(call.items[i], <<"spec", "containers">>).l
            IN  /\ call.out[i].content.MemoryRequestMiB = SumContainerMiB(entries, "requests")
                /\ call.out[i].content.MemoryLimitMiB = SumContainerMiB(entries, "limits")

\* C24: the Pod mapper's MemoryRequestMiB and MemoryLimitMiB are the sums,
\* over the entries of spec.containers, of parseMemoryToMiB of the entry's
\* resources.requests.memory and resources.limits.memory strings, each
\* truncated to MiB before it is added; an entry without such a string, or
\* with one that does not parse, adds 0.
C24_PodMemorySumsTruncatedPerContainer == PodMemorySums(projCall)

\* The Pod mapper has projected the pod with two containers of 1.5Mi / 2.5Mi
\* and three entries that add nothing: 1 + 1 and 2 + 2.
C24_Witness ==
    /\ ProjectedBy(projCall, "mapPodResource")
    /\ projCall.items = <<ItemPodFractions>>
    /\ Len(FieldAt(ItemPodFractions, <<"spec", "containers">>).l) = 5
    /\ projCall.out[1].content.MemoryRequestMiB = 2
    /\ projCall.out[1].content.MemoryLimitMiB = 4

\* The Ready column for a replicas count read at the given path.
ReadyFor(item, replicasPath) ==
    LET replicas == FieldAt(item, replicasPath)
        readyReplicas == FieldAt(item, <<"status", "readyReplicas">>)
    IN  IF replicas.t # "int64" THEN ""
        ELSE ToString(IF readyReplicas.t = "int64" THEN readyReplicas.n ELSE 0)
                 \o "/" \o ToString(replicas.n)

WorkloadReady(call, mapper, replicasPath) ==
    ProjectedBy(call, mapper) =>
        \A i \in 1..Len(call.items) :
            /\ call.out[i].content.Ready = ReadyFor(call.items[i], replicasPath)
            /\ FieldAt(call.items[i], replicasPath) = JNull
                   => "ready" \notin DOMAIN toJSON(call.out[i])

\* C25: the Deployment mapper (replicas from status.replicas) and the
\* StatefulSet mapper (replicas from spec.replicas) give Ready as
\* "readyReplicas/replicas" whenever replicas is there, with 0 for an absent
\* status.readyReplicas, and leave Ready out whenever replicas is absent,
\* readyReplicas or not.
C25_ReadyNeedsReplicas ==
    /\ WorkloadReady(projCall, "mapDeploymentResource", <<"status", "replicas">>)
    /\ WorkloadReady(projCall, "mapStatefulSetResource", <<"spec", "replicas">>)

\* The Deployment mapper has projected the object that has readyReplicas
\* and spec.replicas but no status.replicas, and left Ready out; the
\* StatefulSet mapper reports 1/3 for it.
C25_Witness ==
    /\ ProjectedBy(projCall, "mapDeploymentResource")
    /\ projCall.items = <<ItemWorkloadSpecOnly>>
    /\ FieldAt(ItemWorkloadSpecOnly, <<"status", "readyReplicas">>) = JInt(1)
    /\ projCall.out[1].content.Ready = ""
    /\ "ready" \notin DOMAIN toJSON(projCall.out[1])
    /\ mapStatefulSetResource(ItemWorkloadSpecOnly).Ready = "1/3"
    /\ mapDeploymentResource(ItemWorkloadNoReady).Ready = "0/2"

IntAt(item, path) == IF FieldAt(item, path).t = "int64" THEN FieldAt(item, path).n ELSE 0

CompletionsFor(item) ==
    (IF FieldAt(item, <<"spec", "completions">>).t = "int64"
     THEN ToString(IntAt(item, <<"status", "succeeded">>)) \o "/"
              \o ToString(FieldAt(item, <<"spec", "completions">>).n)
     ELSE ToString(IntAt(item, <<"status", "succeeded">>)))
    \o (IF IntAt(item, <<"status", "failed">>) > 0
        THEN " (" \o ToString(IntAt(item, <<"status", "failed">>)) \o " failed)"
        ELSE "")

DurationFor(item) ==
    IF FieldAt(item, <<"status", "startTime">>).s = "" THEN ""
    ELSE IF FieldAt(item, <<"status", "completionTime">>).s = "" THEN "running"
    ELSE "completed"

JobColumns(call) ==
    ProjectedBy(call, "mapJobResource") =>
        \A i \in 1..Len(call.items) :
            /\ call.out[i].content.Completions = CompletionsFor(call.items[i])
            /\ call.out[i].content.Duration = DurationFor(call.items[i])
            /\ DurationFor(call.items[i]) = "" => "duration" \notin DOMAIN toJSON(call.out[i])

\* C26: the Job mapper's Completions is "succeeded/desired" when
\* spec.completions exists and the bare succeeded count otherwise, absent
\* counts being 0, followed by " (N failed)" exactly when the failed count N
\* is above 0; Duration is "completed" when status.startTime and
\* status.completionTime are both non-empty, "running" when startTime is
\* non-empty and completionTime is absent or empty, and left out when
\* startTime is absent or empty.
C26_JobCompletionsAndDuration == JobColumns(projCall)

\* The Job mapper has projected the started job without completions and
\* succeeded count, with two failures and an empty completionTime.
C26_Witness ==
    /\ ProjectedBy(projCall, "mapJobResource")
    /\ projCall.items = <<ItemJobEmptyCompletion>>
    /\ projCall.out[1].content.Completions = "0 (2 failed)"
    /\ projCall.out[1].content.Duration = "running"
    /\ mapJobResource(ItemJobDone).Completions = "3"
    /\ mapJobResource(ItemJobDone).Duration = "completed"
    /\ mapJobResource(ItemJob).Completions = "1/2 (1 failed)"
    /\ mapJobResource(ItemJobNotStarted).Duration = ""

FirstPort(item) == FieldAt(item, <<"spec", "ports">>).l[1]
HasPorts(item) == FieldAt(item, <<"spec", "ports">>).l # <<>>

\* "port/protocol" of one entry of spec.ports.
PortSlashProtocol(entry) ==
    ToString(FieldAt(entry, <<"port">>).n) \o "/" \o FieldAt(entry, <<"protocol">>).s

ServicePortFromFirst(call, withProtocolOnly) ==
    ProjectedBy(call, "mapServiceResource") =>
        \A i \in 1..Len(call.items) :
            LET item == call.items[i]
                Port == call.out[i].content.Port
            IN  HasPorts(item) =>
                    IF FieldAt(FirstPort(item), <<"port">>).t # "int64"
                    THEN Port = "" /\ "port" \notin DOMAIN toJSON(call.out[i])
                    ELSE IF withProtocolOnly
                            \/ FieldAt(FirstPort(item), <<"protocol">>).t = "string"
                    THEN Port = PortSlashProtocol(FirstPort(item))
                    ELSE Port = ToString(FieldAt(FirstPort(item), <<"port">>).n)

\* C27 as stated: the Service mapper's Port is "port/protocol" of the first
\* entry of spec.ports, whatever the later entries are, and is left out
\* when the first entry has no integer port.
C27_PortIsFirstPortSlashProtocol == ServicePortFromFirst(projCall, TRUE)

\* C27, amended: the Service mapper's Port comes from the first entry of
\* spec.ports only: "port/protocol" when that entry has an integer port and
\* a protocol, the bare port when it has an integer port and no protocol,
\* and left out when it has no integer port, whatever the later entries are.
C27_PortFromFirstEntryOnly == ServicePortFromFirst(projCall, FALSE)

\* The Service mapper has projected the service whose first entry has no
\* port number while the second has one, and left Port out; two services
\* that differ in their second entry only get the same Port.
C27_Witness ==
    /\ ProjectedBy(projCall, "mapServiceResource")
    /\ projCall.items = <<ItemServiceNoFirstPort>>
    /\ FieldAt(ItemServiceNoFirstPort, <<"spec", "ports">>).l[2].m["port"] = JInt(53)
    /\ projCall.out[1].content.Port = ""
    /\ mapServiceResource(ItemService).Port = "80/TCP"
    /\ mapServiceResource(ItemServiceOtherSecond).Port = "80/TCP"
    /\ mapServiceResource(ItemServiceNoProtocol).Port = "443"

-----------------------------------------------------------------------------
(* Runs of formatDuration, event.go:135-151                                *)

MaxSkew == 4

Minute == 60
Hour == 60 * Minute
Day == 24 * Hour

\* Durations, in whole seconds, around the ends of the buckets: negative
\* ones, and ones up to MaxSkew seconds before and after a whole number of
\* minutes, hours or days.
DurationMarks == {0, Minute, 2 * Minute, Hour, 2 * Hour, Day, 2 * Day}
Durations == {mark + skew : mark \in DurationMarks, skew \in (0 - MaxSkew)..MaxSkew}

\* One call of formatDuration.
FormatDuration ==
    /\ durOut = NoCall
    /\ durOut' = [op |-> "formatDuration", out |-> formatDuration(durIn)]
    /\ UNCHANGED <<resourceMappers, regVars, normVars, projVars, resolveVars>>
    /\ UNCHANGED <<startupVars, parseVars, toolVars, callVars, durIn, mainVars>>

InitDuration ==
    /\ resourceMappers = InitializedRegistry
    /\ regHistory = <<>>
    /\ lastCall = NoCall
    /\ NormIdle
    /\ ProjIdle
    /\ ResolveIdle
    /\ StartupIdle
    /\ ParseIdle
    /\ ToolIdle
    /\ CallIdle
    /\ durIn \in Durations
    /\ durOut = NoCall
    /\ MainIdle

NextDuration == FormatDuration

SpecDuration == InitDuration /\ [][NextDuration]_vars

\* The text is n followed by the unit, for the n >= 1 with
\* n * size <= d < (n + 1) * size.
WholeUnits(d, text, size, unit) ==
    \E n \in 1..(d \div size) :
        /\ n * size <= d
        /\ d < (n + 1) * size
        /\ text = ToString(n) \o unit

\* C28: formatDuration gives "< 1m" below one minute, negative durations
\* included, the whole minutes as "{n}m" from one minute to below one hour,
\* the whole hours as "{n}h" from one hour to below 24 hours, and the whole
\* days as "{n}d" from 24 hours on, with n >= 1 in the last three.
C28_FormatDurationBuckets ==
    durOut.op # "none" =>
        /\ durIn < Minute => durOut.out = "< 1m"
        /\ Minute <= durIn /\ durIn < Hour => WholeUnits(durIn, durOut.out, Minute, "m")
        /\ Hour <= durIn /\ durIn < Day => WholeUnits(durIn, durOut.out, Hour, "h")
        /\ Day <= durIn => WholeUnits(durIn, durOut.out, Day, "d")

\* formatDuration has run on one second less than a day.
C28_Witness ==
    /\ durOut.op # "none"
    /\ durIn = Day - 1
    /\ durOut.out = "23h"
    /\ formatDuration(Day) = "1d"
    /\ formatDuration(Minute) = "1m"
    /\ formatDuration(0 - 1) = "< 1m"

\* The instant a field of an event holds, when it is a string that parses
\* as RFC 3339.
TimestampAt(item, field) ==
    IF FieldAt(item, <<field>>).t = "string"
    THEN ParseRFC3339(FieldAt(item, <<field>>).s)
    ELSE [ok |-> FALSE, t |-> ZeroTime]

EventAge(call) ==
    ProjectedBy(call, "mapEventResource") =>
        \A i \in 1..Len(call.items) :
            LET first == TimestampAt(call.items[i], "firstTimestamp")
                event == TimestampAt(call.items[i], "eventTime")
                Age == call.out[i].content.Age
            IN  /\ first.ok => Age = formatSince(first.t, call.clock)
                /\ ~first.ok /\ event.ok => Age = formatSince(event.t, call.clock)

\* C29: the Event mapper fills Age whenever firstTimestamp or eventTime
\* holds an RFC 3339 timestamp: from firstTimestamp when that one parses,
\* and otherwise from eventTime when that one parses, also when a
\* firstTimestamp is there and does not parse.
C29_AgeFromEitherTimestamp == EventAge(projCall)

-----------------------------------------------------------------------------
(* main and the goroutine that runs the stdio server, main.go:32-136       *)
(*                                                                         *)
(* ServeStdio is the library's: when it returns, and whether with an error *)
(* or with nil (standard input closed), is the environment's choice, as is *)
(* the arrival of signals.  Signals are followed from signal.Notify on.    *)

Signals == {"interrupt", "terminated"}
ServeErrors == {"read error", "write error"}
Flags == {"", "-help", "-version"}

MsgStarting == "Starting MCP server"
MsgShutdown == "Server shutdown complete"
MsgReceived(sig) == "Received signal " \o sig \o ", shutting down gracefully..."
MsgServerError(err) == "Server error: " \o err

MainFrame ==
    /\ UNCHANGED <<resourceMappers, regVars, normVars, projVars, resolveVars>>
    /\ UNCHANGED <<startupVars, parseVars, toolVars, callVars, durVars>>

\* Lines 33-60: with -help or -version main prints to standard output and
\* exits with status 0.
MainFlags ==
    \E flag \in Flags :
        /\ mainPc = "flags"
        /\ IF flag = "" THEN mainPc' = "setup" /\ exitCode' = exitCode
           ELSE mainPc' = "exited" /\ exitCode' = 0
        /\ UNCHANGED <<servePc, errChan, sigChan, stderr>>
        /\ MainFrame

\* Lines 62-118: the server, the registrations, the two channels of
\* capacity one, signal.Notify, and the go statement.
MainSetup ==
    /\ mainPc = "setup"
    /\ mainPc' = "select"
    /\ servePc' = "spawned"
    /\ UNCHANGED <<errChan, sigChan, exitCode, stderr>>
    /\ MainFrame

\* Line 114-115: the goroutine announces the server and calls ServeStdio.
ServeStart ==
    /\ mainPc # "exited"
    /\ servePc = "spawned"
    /\ servePc' = "serving"
    /\ stderr' = Append(stderr, MsgStarting)
    /\ UNCHANGED <<mainPc, errChan, sigChan, exitCode>>
    /\ MainFrame

\* Lines 115-117: ServeStdio returns err, and the goroutine ends after
\* sending err when it is not nil.
ServeStdioReturns(err) ==
    /\ mainPc # "exited"
    /\ servePc = "serving"
    /\ servePc' = "returned"
    /\ errChan' = IF err # "" THEN Append(errChan, err) ELSE errChan
    /\ UNCHANGED <<mainPc, sigChan, exitCode, stderr>>
    /\ MainFrame

ServeReturns == \E err \in ServeErrors \cup {""} : ServeStdioReturns(err)

\* The runtime delivers a signal the process was notified for: it is put
\* on sigChan unless the channel is full.
Signal ==
    \E sig \in Signals :
        /\ mainPc \in {"select", "sleep", "print"}
        /\ sigChan = <<>>
        /\ sigChan' = <<sig>>
        /\ UNCHANGED <<mainPc, servePc, errChan, exitCode, stderr>>
        /\ MainFrame

\* Lines 121-127: the select receives a signal.
MainReceivesSignal ==
    /\ mainPc = "select"
    /\ sigChan # <<>>
    /\ sigChan' = Tail(sigChan)
    /\ stderr' = Append(stderr, MsgReceived(Head(sigChan)))
    /\ mainPc' = "sleep"
    /\ UNCHANGED <<servePc, errChan, exitCode>>
    /\ MainFrame

\* Lines 129-132: the select receives a server error, and main exits with
\* status 1.
MainReceivesError ==
    /\ mainPc = "select"
    /\ errChan # <<>>
    /\ errChan' = Tail(errChan)
    /\ stderr' = Append(stderr, MsgServerError(Head(errChan)))
    /\ mainPc' = "exited"
    /\ exitCode' = 1
    /\ UNCHANGED <<servePc, sigChan>>
    /\ MainFrame

\* Line 127: time.Sleep(100 * time.Millisecond) is over.
MainWakes ==
    /\ mainPc = "sleep"
    /\ mainPc' = "print"
    /\ UNCHANGED <<servePc, errChan, sigChan, exitCode, stderr>>
    /\ MainFrame

\* Lines 135-136: the shutdown message, and main returns.
MainReturns ==
    /\ mainPc = "print"
    /\ stderr' = Append(stderr, MsgShutdown)
    /\ mainPc' = "exited"
    /\ exitCode' = 0
    /\ UNCHANGED <<servePc, errChan, sigChan>>
    /\ MainFrame

InitMain ==
    /\ resourceMappers = InitializedRegistry
    /\ regHistory = <<>>
    /\ lastCall = NoCall
    /\ NormIdle
    /\ ProjIdle
    /\ ResolveIdle
    /\ StartupIdle
    /\ ParseIdle
    /\ ToolIdle
    /\ CallIdle
    /\ DurIdle
    /\ mainPc = "flags"
    /\ servePc = "none"
    /\ errChan = <<>>
    /\ sigChan = <<>>
    /\ exitCode = 0 - 1
    /\ stderr = <<>>

NextMain ==
    \/ MainFlags
    \/ MainSetup
    \/ ServeStart
    \/ ServeReturns
    \/ Signal
    \/ MainReceivesSignal
    \/ MainReceivesError
    \/ MainWakes
    \/ MainReturns

\* The scheduler runs every goroutine that can take a step; when ServeStdio
\* returns and when signals arrive is left open.
SpecMain ==
    /\ InitMain
    /\ [][NextMain]_vars
    /\ WF_vars(MainFlags)
    /\ WF_vars(MainSetup)
    /\ WF_vars(ServeStart)
    /\ WF_vars(MainReceivesSignal \/ MainReceivesError)
    /\ WF_vars(MainWakes)
    /\ WF_vars(MainReturns)

Printed(msg) == \E i \in 1..Len(stderr) : stderr[i] = msg
Exited == mainPc = "exited"
SignalReceived == \E sig \in Signals : Printed(MsgReceived(sig))

\* C30: the process ends whenever the stdio server stops: once ServeStdio
\* has returned, with an error or without, main leaves its select and
\* exits, and once a signal has been received main prints the shutdown
\* message and exits.
C30_ProcessEndsWhenServerStops ==
    /\ servePc = "returned" ~> Exited
    /\ SignalReceived ~> Exited /\ Printed(MsgShutdown)

\* The part of C30 about a server error: main exits with status 1.
ServerErrorExitsWithOne ==
    (\E err \in ServeErrors : Printed(MsgServerError(err))) => Exited /\ exitCode = 1

\* The part of C30 about signals.
SignalEndsProcess == SignalReceived ~> Exited /\ exitCode = 0 /\ Printed(MsgShutdown)

\* The part of C30 about a ServeStdio that returns an error.
ServerErrorEndsProcess == servePc = "returned" /\ errChan # <<>> ~> Exited

\* ServeStdio has returned nil, nothing is on either channel, and main is
\* in its select.
ServerStoppedMainWaits ==
    /\ servePc = "returned"
    /\ mainPc = "select"
    /\ errChan = <<>>
    /\ sigChan = <<>>

====
